---- MODULE Spec2Model ----
(***************************************************************************)
(* A state-machine model of the SnakeGame component (src/src/SnakeGame.tsx) *)
(* of the eurhuf widget: the grid simulation (moveSnake, spawnFood,        *)
(* spawnEnemiesForLevel), the game-phase handlers and the visibility       *)
(* effect, and the Hall of Fame synchronisation with the remote table.     *)
(*                                                                         *)
(* One action is one handler run to completion together with the React     *)
(* render and the effects that follow it: the component is single-threaded *)
(* and an event's state updates are committed before the next event.       *)
(* Only awaits (remote select / insert) and timers split a handler into    *)
(* several actions.                                                        *)
(***************************************************************************)
EXTENDS Integers, Sequences, FiniteSets, TLC

\* ------------------------------------------------------------------ CONFIG
GRID_SIZE == 15
INITIAL_SPEED == 150
MIN_SPEED == 60
SPEED_DECREASE == 5
LEVEL_SPEED_STEP == 10
FOOD_SCORE == 1
LEVEL_CLEAR_SCORE == 5
FOOD_PER_LEVEL == 8
NAME_MAX_CHARS == 8
HOF_SIZE == 10

\* ------------------------------------------------------------------ bounds
\* simulation ticks in one game (from one startGame to the next)
MaxTicks == 10
\* direction keys pressed in one game
MaxKeys == 1
\* remote operations in one behaviour: score submissions, rows inserted by
\* other clients, and leaderboard fetches after the first
MaxOps == 2
\* clicks, drags and repeated fetches of App in one behaviour
MaxAppOps == 2

\* ------------------------------------------------------------------ types
Direction == {"UP", "DOWN", "LEFT", "RIGHT"}

Max(a, b) == IF a >= b THEN a ELSE b
Min(a, b) == IF a <= b THEN a ELSE b

\* Cells the random generator is let to return for food and for enemies:
\* Math.random() may return any cell; the model samples these.
FoodSampleCells ==
    {<<x, 7>> : x \in 8..14} \cup {<<14, 8>>}
EnemySampleCells == {<<9, 7>>, <<8, 8>>, <<6, 7>>, <<10, 7>>}
\* The smaller food sample of the leaderboard specification.
HofFoodCells == {<<8, 7>>, <<9, 7>>}

VARIABLES
    \* React state of the game
    gameState, score, highScore, isNewRecord, level, highLevel,
    foodEatenThisLevel,
    \* refs of the game
    snake, direction, inputQueue, food, enemies, speed,
    autoPaused, hasStarted,
    \* props and lifecycle
    isVisible, mounted,
    \* pending level-clear timers: the highScore each closure captured
    lcTimers,
    \* Hall of Fame: React state, refs, local storage
    hasSupabaseConfig, hallOfFame, storedHof, hofStoredByApp, playerName,
    hasSavedScore, hofLoading, hofError, hofRequestId, hofTimer,
    \* the remote side: requests in flight, the table, pending notifications
    fetches, inserts, remoteTable, notifs,
    \* history: was the pause asked for by the user, did a tick of this game
    \* discard a reversing direction; counters that bound the model
    manualPause, reverseDropped, ticks, keys, saves, foreign,
    \* local storage (the raw value under each key, Null when missing) and
    \* whether setItem throws; the numbers the initializers of SnakeGame
    \* read from it; the state of App; the exception that left an
    \* initializer, a handler or an effect uncaught
    storage, storageFails, loaded, app, crashed

gameVars == <<gameState, score, highScore, isNewRecord, level, highLevel,
              foodEatenThisLevel>>
gridVars == <<snake, direction, inputQueue, food, enemies, speed>>
pauseVars == <<autoPaused, hasStarted>>
lifeVars == <<isVisible, mounted>>
hofState == <<hallOfFame, storedHof, hofStoredByApp, hofLoading, hofError>>
hofVars == <<hasSupabaseConfig, hallOfFame, storedHof, hofStoredByApp,
             playerName, hasSavedScore, hofLoading, hofError, hofRequestId,
             hofTimer>>
hofRest == <<hasSupabaseConfig, hallOfFame, storedHof, hofStoredByApp,
             playerName, hofLoading, hofError, hofRequestId, hofTimer>>
remoteVars == <<fetches, inserts, remoteTable, notifs>>
histVars == <<manualPause, reverseDropped, ticks, keys, saves, foreign>>
storeVars == <<storage, storageFails, loaded, app, crashed>>
storeRest == <<storageFails, loaded, app, crashed>>
gameAll == <<gameVars, gridVars, pauseVars, lifeVars, lcTimers, hofVars,
             remoteVars, histVars>>
vars == <<gameVars, gridVars, pauseVars, lifeVars, lcTimers, hofVars,
          remoteVars, histVars, storeVars>>

\* safeSetItem(HALL_OF_FAME_KEY, JSON.stringify(next)): the snapshot after
\* the write
WriteSnapshot(next) == IF storageFails THEN storedHof ELSE next

\* ------------------------------------------------------------- local storage
\* null: a missing key of local storage, an absent value (getHofCutoff
\* without a full list, no notice, no cached rates).  A value v that may be
\* null is <<v>>; a string is the sequence of its characters or words.
Null == <<>>

\* Number.prototype.toString of a non-negative integer
Digits == <<"0", "1", "2", "3", "4", "5", "6", "7", "8", "9">>
RECURSIVE NumberToString(_)
NumberToString(n) ==
    IF n < 10 THEN <<Digits[n + 1]>>
    ELSE NumberToString(n \div 10) \o <<Digits[(n % 10) + 1]>>

\* a JavaScript number: an integer or NaN
Num(n) == [nan |-> FALSE, v |-> n]
NaN == [nan |-> TRUE, v |-> 0]

\* parseInt(str, 10): leading white space is skipped, then the longest
\* prefix of decimal digits is read; NaN when there is none
IsDigit(ch) == \E d \in DOMAIN Digits : Digits[d] = ch
DigitValue(ch) == (CHOOSE d \in DOMAIN Digits : Digits[d] = ch) - 1
RECURSIVE SkipWhiteSpace(_)
SkipWhiteSpace(str) ==
    IF str # <<>> /\ Head(str) = " " THEN SkipWhiteSpace(Tail(str)) ELSE str
RECURSIVE ParseDigits(_, _)
ParseDigits(str, acc) ==
    IF str = <<>> \/ ~IsDigit(Head(str)) THEN acc
    ELSE ParseDigits(Tail(str), 10 * acc + DigitValue(Head(str)))
ParseInt(str) ==
    LET rest == SkipWhiteSpace(str)
    IN  IF rest = <<>> \/ ~IsDigit(Head(rest)) THEN NaN
        ELSE Num(ParseDigits(rest, 0))

\* JSON.stringify and JSON.parse.  The text of a value is the word "json"
\* followed by the value; any other text is not JSON and JSON.parse throws
\* a SyntaxError.
JsonStringify(value) == <<"json">> \o value
JsonParse(text) ==
    IF text # <<>> /\ Head(text) = "json"
    THEN [threw |-> FALSE, value |-> Tail(text)]
    ELSE [threw |-> TRUE, value |-> Null]

\* localStorage.setItem: throws when the storage refuses the write
SetItem(store, fails, key, value) ==
    IF fails THEN [threw |-> TRUE, store |-> store]
    ELSE [threw |-> FALSE, store |-> [store EXCEPT ![key] = value]]

\* safeSetItem: setItem in a try block with an empty catch
SafeSetItem(store, fails, key, value) == SetItem(store, fails, key, value).store

\* the useState initializers of SnakeGame that read highScore, highLevel and
\* the last name
ReadHighScore(store) ==
    IF store.highScore # Null THEN ParseInt(store.highScore) ELSE Num(0)
ReadHighLevel(store) ==
    IF store.highLevel # Null THEN ParseInt(store.highLevel) ELSE Num(1)
ReadPlayerName(store) ==
    IF store.lastName # Null THEN store.lastName ELSE <<>>

\* ------------------------------------------------------------------ App
\* The card order of a first visit, the rates object built from a response,
\* the notice of fetchRates
DefaultOrder == <<"EUR", "USD", "GBP", "CHF">>
FreshRates(n) == <<"rates", n>>
RatesNotice == <<"Nem sikerult az arfolyamok betoltese">>
ThemeName(dark) == IF dark THEN <<"dark">> ELSE <<"light">>

\* The useState initializers of App.  JSON.parse is not guarded: when it
\* throws, the exception leaves the initializer.
AppInitializers(store) ==
    LET savedRates == IF store.cachedRates # Null
                      THEN JsonParse(store.cachedRates)
                      ELSE [threw |-> FALSE, value |-> Null]
        savedOrder == IF store.currencyOrder # Null
                      THEN JsonParse(store.currencyOrder)
                      ELSE [threw |-> FALSE, value |-> DefaultOrder]
    IN  [threw |-> savedRates.threw \/ savedOrder.threw,
         state |-> [rates |-> savedRates.value,
                    isDarkMode |-> store.theme = <<"dark">>,
                    isLoading |-> TRUE,
                    error |-> Null,
                    currencyOrder |-> savedOrder.value,
                    analyticsConsent |->
                        IF store.analyticsConsent = <<"granted">> \/
                           store.analyticsConsent = <<"denied">>
                        THEN store.analyticsConsent ELSE Null,
                    pending |-> 0,
                    responses |-> 0,
                    fetch |-> "none",
                    failed |-> FALSE,
                    ops |-> 0]]

\* The page after construction and the mount effects: the initializers of
\* App and of SnakeGame, then the effects that write the theme and the card
\* order with a bare setItem, then the first fetchRates.  An exception that
\* leaves an initializer or an effect takes the whole tree down (there is no
\* error boundary).
LoadPage(store, fails) ==
    LET init == AppInitializers(store)
        theme == SetItem(store, fails, "theme", ThemeName(init.state.isDarkMode))
        order == SetItem(theme.store, fails, "currencyOrder",
                         JsonStringify(init.state.currencyOrder))
        records == [highScore |-> ReadHighScore(store),
                    highLevel |-> ReadHighLevel(store)]
    IN  IF init.threw
        THEN [storage |-> store, loaded |-> records, app |-> init.state,
              crashed |-> "initializer"]
        ELSE IF theme.threw \/ order.threw
        THEN [storage |-> order.store, loaded |-> records, app |-> init.state,
              crashed |-> "effect"]
        ELSE [storage |-> order.store, loaded |-> records,
              app |-> [init.state EXCEPT !.pending = 1],
              crashed |-> "none"]

\* arrayMove of handleDragEnd
IndexOf(items, id) == CHOOSE i \in DOMAIN items : items[i] = id
ArrayMove(items, from, to) ==
    LET without == SubSeq(items, 1, from - 1) \o
                   SubSeq(items, from + 1, Len(items))
    IN  SubSeq(without, 1, to - 1) \o <<items[from]>> \o
        SubSeq(without, to, Len(without))

\* ------------------------------------------------------------------ grid
GridCells == (0..(GRID_SIZE - 1)) \X (0..(GRID_SIZE - 1))

InitialSnake ==
    LET centerX == GRID_SIZE \div 2
        centerY == GRID_SIZE \div 2
    IN  <<<<centerX, centerY>>, <<centerX - 1, centerY>>, <<centerX - 2, centerY>>>>

Opposite(d) ==
    CASE d = "UP" -> "DOWN"
      [] d = "DOWN" -> "UP"
      [] d = "LEFT" -> "RIGHT"
      [] d = "RIGHT" -> "LEFT"

\* IsValidTurn with the test left out: every dequeued direction is applied
IsValidTurnAny(currentDir, nextDir) == TRUE

\* moveSnake: the test that rejects a 180-degree turn
IsValidTurn(currentDir, nextDir) ==
    ~ (\/ (currentDir = "UP" /\ nextDir = "DOWN")
       \/ (currentDir = "DOWN" /\ nextDir = "UP")
       \/ (currentDir = "LEFT" /\ nextDir = "RIGHT")
       \/ (currentDir = "RIGHT" /\ nextDir = "LEFT"))

\* moveSnake: the heading after the input queue was processed
NextHeading(currentDir, queue) ==
    IF Len(queue) > 0 /\ IsValidTurn(currentDir, Head(queue))
    THEN Head(queue)
    ELSE currentDir

\* StepHead on a torus: the head leaves one border and enters the other
StepHeadWrap(head, dir) ==
    CASE dir = "UP" -> <<head[1], (head[2] + GRID_SIZE - 1) % GRID_SIZE>>
      [] dir = "DOWN" -> <<head[1], (head[2] + 1) % GRID_SIZE>>
      [] dir = "LEFT" -> <<(head[1] + GRID_SIZE - 1) % GRID_SIZE, head[2]>>
      [] dir = "RIGHT" -> <<(head[1] + 1) % GRID_SIZE, head[2]>>

\* moveSnake: the switch that moves the copied head by one cell
StepHead(head, dir) ==
    CASE dir = "UP" -> <<head[1], head[2] - 1>>
      [] dir = "DOWN" -> <<head[1], head[2] + 1>>
      [] dir = "LEFT" -> <<head[1] - 1, head[2]>>
      [] dir = "RIGHT" -> <<head[1] + 1, head[2]>>

\* OutOfGrid with > for >=: a wall test that lets the head one cell past the
\* right and the bottom edge
OutOfGridPast(head) ==
    head[1] < 0 \/ head[1] > GRID_SIZE \/ head[2] < 0 \/ head[2] > GRID_SIZE

OutOfGrid(head) ==
    head[1] < 0 \/ head[1] >= GRID_SIZE \/ head[2] < 0 \/ head[2] >= GRID_SIZE

\* snake.some(...): the self-collision test with the tail included
WillCollideWithTail(snk, head) == \E i \in 1..Len(snk) : snk[i] = head

\* snake.slice(0, -1).some(...): the tail is left out
WillCollide(snk, head) == \E i \in 1..(Len(snk) - 1) : snk[i] = head

HitEnemy(en, head) == \E i \in 1..Len(en) : en[i] = head

Cells(seq) == {seq[i] : i \in 1..Len(seq)}

\* isBlocked without its test of the snake
IsBlockedByEnemies(pos, snk, en) == pos \in Cells(en)

\* spawnFood: isBlocked
IsBlocked(pos, snk, en) == pos \in Cells(snk) \/ pos \in Cells(en)

\* spawnFood: the full-grid scan, rows outermost, taken when the sampling
\* loop ended on a blocked cell
ScanFirstFree(snk, en) ==
    LET free == {c \in GridCells : ~ IsBlocked(c, snk, en)}
    IN  CHOOSE c \in free :
            \A o \in free : c[2] * GRID_SIZE + c[1] <= o[2] * GRID_SIZE + o[1]

\* spawnFood: every cell the call can leave in foodRef, the random cells
\* drawn from `sample`.  The loop ends on the first free sample, or after
\* 300 samples that were all blocked; then the scan decides, and
\* with no free cell at all the last (blocked) sample stays.
SpawnFood(snk, en, sample) ==
    LET freeSample == {c \in sample : ~ IsBlocked(c, snk, en)}
        blockedSample == {c \in GridCells : IsBlocked(c, snk, en)}
        anyFree == \E c \in GridCells : ~ IsBlocked(c, snk, en)
    IN  freeSample \cup
        (IF blockedSample = {} THEN {}
         ELSE IF anyFree THEN {ScanFirstFree(snk, en)}
         ELSE blockedSample)

\* the blocked set without the 3x3 head area: the snake cells only
EnemyBlockedSnakeOnly(snk) == Cells(snk)

\* spawnEnemiesForLevel: the blocked set (snake cells and the 3x3 head area)
EnemyBlocked(snk) ==
    Cells(snk) \cup
    (IF Len(snk) = 0 THEN {}
     ELSE {c \in GridCells : /\ c[1] - snk[1][1] \in -1..1
                             /\ c[2] - snk[1][2] \in -1..1})

Injective(seq) == \A i, j \in 1..Len(seq) : i # j => seq[i] # seq[j]

\* spawnEnemiesForLevel with targetLevel enemies: one per level instead of
\* one per level after the first
SpawnEnemiesPerLevel(targetLevel, snk, sample) ==
    LET free == {c \in sample : c \notin EnemyBlocked(snk)}
        placed == Min(targetLevel, Cardinality(free))
    IN  {s \in [1..placed -> free] : Injective(s)}

\* spawnEnemiesForLevel: every enemy list the call can produce, the random
\* cells drawn from `sample`.  Each placed cell is added to the blocked set;
\* the loop stops at enemyCount cells.  Its 4000 attempts are used up only
\* when no free cell is left to draw: a run of 4000 draws that all miss the
\* free cells is not followed.
SpawnEnemiesForLevel(targetLevel, snk, sample) ==
    LET enemyCount == Max(0, targetLevel - 1)
        free == {c \in sample : c \notin EnemyBlocked(snk)}
        placed == Min(enemyCount, Cardinality(free))
    IN  IF enemyCount = 0 THEN {<<>>}
        ELSE {s \in [1..placed -> free] : Injective(s)}

\* initGame / nextLevel: the tick interval a level starts with
LevelSpeed(lvl) == Max(INITIAL_SPEED - (lvl - 1) * LEVEL_SPEED_STEP, MIN_SPEED)

\* the speed-up without Math.max: the interval falls below MIN_SPEED
SpeedUpNoFloor(spd) == spd - SPEED_DECREASE

\* moveSnake: the tick interval after a food was eaten
SpeedUp(spd) == Max(spd - SPEED_DECREASE, MIN_SPEED)

\* ------------------------------------------------------------------ effects
\* The visibility effect (deps isVisible, gameState), run once.
VisibilityEffect(gs, vis, ap, hs) ==
    IF ~ vis
    THEN [gs |-> IF gs = "playing" THEN "paused" ELSE gs,
          ap |-> IF hs /\ gs # "gameover" /\ gs # "menu" THEN TRUE ELSE ap]
    ELSE IF ap /\ hs /\ gs = "paused"
         THEN [gs |-> "playing", ap |-> FALSE]
         ELSE [gs |-> gs, ap |-> ap]

\* A render and its effects after a handler left gameState = gsNew and
\* isVisible = visNew: the effect runs when one of its deps changed, and
\* again after it changed gameState itself.
Commit(gsOld, visOld, gsNew, visNew, ap, hs) ==
    IF gsNew = gsOld /\ visNew = visOld
    THEN [gs |-> gsNew, ap |-> ap]
    ELSE LET r1 == VisibilityEffect(gsNew, visNew, ap, hs)
         IN  IF r1.gs = gsNew THEN r1
             ELSE VisibilityEffect(r1.gs, visNew, r1.ap, hs)

\* history: is the pause the component is left in one the user asked for
ManualAfter(gsNew, byUser) ==
    /\ gsNew = "paused"
    /\ (byUser \/ (gameState = "paused" /\ manualPause))

\* ------------------------------------------------------------------ game
\* startGame (the buttons of the menu, pause and game-over overlays), with
\* initGame(false): level 1, no enemies, a fresh food.
StartGame(foodCells) ==
    /\ mounted /\ isVisible
    /\ gameState \in {"menu", "paused", "gameover"}
    /\ hasStarted' = TRUE
    /\ hasSavedScore' = FALSE
    /\ isNewRecord' = FALSE
    /\ snake' = InitialSnake
    /\ direction' = "RIGHT"
    /\ inputQueue' = <<>>
    /\ speed' = LevelSpeed(1)
    /\ enemies' \in SpawnEnemiesForLevel(1, InitialSnake, {})
    /\ score' = 0
    /\ level' = 1
    /\ foodEatenThisLevel' = 0
    /\ food' \in SpawnFood(snake', enemies', foodCells)
    /\ LET c == Commit(gameState, isVisible, "playing", isVisible, autoPaused, TRUE)
       IN  /\ gameState' = c.gs
           /\ autoPaused' = c.ap
           /\ manualPause' = ManualAfter(c.gs, FALSE)
    /\ ticks' = 0
    /\ keys' = 0
    /\ reverseDropped' = FALSE
    /\ UNCHANGED <<highScore, highLevel, lifeVars, lcTimers, hofRest, remoteVars,
                   saves, foreign>>
    /\ UNCHANGED storeVars

\* resumeGame (the pause overlay)
ResumeGame ==
    /\ mounted /\ isVisible
    /\ gameState = "paused"
    /\ hasStarted' = TRUE
    /\ hasSavedScore' = FALSE
    /\ LET c == Commit(gameState, isVisible, "playing", isVisible, autoPaused, TRUE)
       IN  /\ gameState' = c.gs
           /\ autoPaused' = c.ap
           /\ manualPause' = ManualAfter(c.gs, FALSE)
    /\ UNCHANGED <<score, highScore, isNewRecord, level, highLevel,
                   foodEatenThisLevel, gridVars, lifeVars, lcTimers, hofRest,
                   remoteVars, ticks, keys, saves, foreign,
                   reverseDropped>>
    /\ UNCHANGED storeVars

\* nextLevel that starts the level as initGame(false) starts a game: the
\* score is set back to 0
NextLevelFromZero(foodCells, enemyCells) ==
    /\ mounted /\ isVisible
    /\ gameState = "levelclear"
    /\ LET newLevel == level + 1
       IN  /\ level' = newLevel
           /\ highLevel' = IF newLevel > highLevel THEN newLevel ELSE highLevel
           /\ storage' = IF newLevel > highLevel
                         THEN SafeSetItem(storage, storageFails, "highLevel",
                                          NumberToString(newLevel))
                         ELSE storage
           /\ speed' = LevelSpeed(newLevel)
           /\ enemies' \in SpawnEnemiesForLevel(newLevel, InitialSnake, enemyCells)
    /\ foodEatenThisLevel' = 0
    /\ snake' = InitialSnake
    /\ direction' = "RIGHT"
    /\ inputQueue' = <<>>
    /\ food' \in SpawnFood(snake', enemies', foodCells)
    /\ LET c == Commit(gameState, isVisible, "playing", isVisible, autoPaused,
                       hasStarted)
       IN  /\ gameState' = c.gs
           /\ autoPaused' = c.ap
           /\ manualPause' = ManualAfter(c.gs, FALSE)
    \* the tick budget of a game: a cleared level counts as at least
    \* FOOD_PER_LEVEL ticks, also when its timer outlived a restart
    /\ ticks' = Max(ticks, FOOD_PER_LEVEL * level)
    /\ score' = 0
    /\ UNCHANGED <<highScore, isNewRecord, hasStarted, lifeVars, lcTimers,
                   hofVars, remoteVars, keys, saves, foreign,
                   reverseDropped>>
    /\ UNCHANGED storeRest

\* nextLevel (the level-clear overlay)
NextLevel(foodCells, enemyCells) ==
    /\ mounted /\ isVisible
    /\ gameState = "levelclear"
    /\ LET newLevel == level + 1
       IN  /\ level' = newLevel
           /\ highLevel' = IF newLevel > highLevel THEN newLevel ELSE highLevel
           /\ storage' = IF newLevel > highLevel
                         THEN SafeSetItem(storage, storageFails, "highLevel",
                                          NumberToString(newLevel))
                         ELSE storage
           /\ speed' = LevelSpeed(newLevel)
           /\ enemies' \in SpawnEnemiesForLevel(newLevel, InitialSnake, enemyCells)
    /\ foodEatenThisLevel' = 0
    /\ snake' = InitialSnake
    /\ direction' = "RIGHT"
    /\ inputQueue' = <<>>
    /\ food' \in SpawnFood(snake', enemies', foodCells)
    /\ LET c == Commit(gameState, isVisible, "playing", isVisible, autoPaused,
                       hasStarted)
       IN  /\ gameState' = c.gs
           /\ autoPaused' = c.ap
           /\ manualPause' = ManualAfter(c.gs, FALSE)
    \* the tick budget of a game: a cleared level counts as at least
    \* FOOD_PER_LEVEL ticks, also when its timer outlived a restart
    /\ ticks' = Max(ticks, FOOD_PER_LEVEL * level)
    /\ UNCHANGED <<score, highScore, isNewRecord, hasStarted, lifeVars, lcTimers,
                   hofVars, remoteVars, keys, saves, foreign,
                   reverseDropped>>
    /\ UNCHANGED storeRest

\* The pause button of the header, and Space / Escape in handleKeyDown:
\* setGameState('paused') while playing.
UserPause(how) ==
    /\ mounted
    /\ gameState = "playing"
    /\ how = "button" => isVisible
    /\ LET c == Commit(gameState, isVisible, "paused", isVisible, autoPaused,
                       hasStarted)
       IN  /\ gameState' = c.gs
           /\ autoPaused' = c.ap
           /\ manualPause' = ManualAfter(c.gs, TRUE)
    /\ UNCHANGED <<score, highScore, isNewRecord, level, highLevel,
                   foodEatenThisLevel, gridVars, hasStarted, lifeVars, lcTimers,
                   hofVars, remoteVars, ticks, keys, saves, foreign,
                   reverseDropped>>
    /\ UNCHANGED storeVars

\* handleKeyDown without the test of the queue length: every direction key
\* is queued
KeyDownUncapped(newDir) ==
    /\ mounted
    /\ gameState = "playing"
    /\ keys < MaxKeys
    /\ keys' = keys + 1
    /\ inputQueue' = Append(inputQueue, newDir)
    /\ UNCHANGED <<gameVars, snake, direction, food, enemies, speed, pauseVars,
                   lifeVars, lcTimers, hofVars, remoteVars, manualPause, ticks,
                   saves, foreign,
                   reverseDropped>>
    /\ UNCHANGED storeVars

\* handleKeyDown with a direction key: queued while fewer than 2 are pending
KeyDown(newDir) ==
    /\ mounted
    /\ gameState = "playing"
    /\ keys < MaxKeys
    /\ keys' = keys + 1
    /\ inputQueue' = IF Len(inputQueue) < 2 THEN Append(inputQueue, newDir)
                     ELSE inputQueue
    /\ UNCHANGED <<gameVars, snake, direction, food, enemies, speed, pauseVars,
                   lifeVars, lcTimers, hofVars, remoteVars, manualPause, ticks,
                   saves, foreign,
                   reverseDropped>>
    /\ UNCHANGED storeVars

\* handleTouchEnd with a swipe of at least 30 px in direction newDir, begun
\* by a touch that handleTouchStart recorded while the game was playing: the
\* direction is queued while fewer than 2 are pending.  Shorter swipes and
\* touches outside the playing phase return before the queue.
HandleTouchEnd(newDir) ==
    /\ mounted
    /\ gameState = "playing"
    /\ keys < MaxKeys
    /\ keys' = keys + 1
    /\ inputQueue' = IF Len(inputQueue) < 2 THEN Append(inputQueue, newDir)
                     ELSE inputQueue
    /\ UNCHANGED <<gameVars, snake, direction, food, enemies, speed, pauseVars,
                   lifeVars, lcTimers, hofVars, remoteVars, manualPause, ticks,
                   saves, foreign,
                   reverseDropped>>
    /\ UNCHANGED storeVars

\* App.toggleGameMode: isVisible flips; the visibility effect follows
ToggleGameMode ==
    /\ mounted
    /\ isVisible' = ~ isVisible
    /\ LET c == Commit(gameState, isVisible, gameState, ~ isVisible, autoPaused,
                       hasStarted)
       IN  /\ gameState' = c.gs
           /\ autoPaused' = c.ap
           /\ manualPause' = ManualAfter(c.gs, FALSE)
    /\ UNCHANGED <<score, highScore, isNewRecord, level, highLevel,
                   foodEatenThisLevel, gridVars, hasStarted, mounted, lcTimers,
                   hofVars, remoteVars, ticks, keys, saves, foreign,
                   reverseDropped>>
    /\ UNCHANGED storeVars

\* handleClose (the X button), then onClose: isVisible becomes false
HandleClose ==
    /\ mounted /\ isVisible
    /\ LET ap1 == IF hasStarted /\ gameState # "gameover" /\ gameState # "menu"
                  THEN TRUE ELSE autoPaused
           gs1 == IF gameState = "playing" THEN "paused" ELSE gameState
           c == Commit(gameState, isVisible, gs1, FALSE, ap1, hasStarted)
       IN  /\ gameState' = c.gs
           /\ autoPaused' = c.ap
           /\ manualPause' = ManualAfter(c.gs, FALSE)
    /\ isVisible' = FALSE
    /\ UNCHANGED <<score, highScore, isNewRecord, level, highLevel,
                   foodEatenThisLevel, gridVars, hasStarted, mounted, lcTimers,
                   hofVars, remoteVars, ticks, keys, saves, foreign,
                   reverseDropped>>
    /\ UNCHANGED storeVars

\* ExceedsRecord with the comparison left out: every score passes
ExceedsRecordAlways(newScore, record) == TRUE

\* if (newScore > highScore): the test of both setScore updaters
ExceedsRecord(newScore, record) == newScore > record

\* snake.unshift(head) with the pop left out: the snake grows on every tick
ShiftSnakeKeepTail(snk, head) == <<head>> \o snk

\* moveSnake without food: snake.unshift(head), then snake.pop()
ShiftSnake(snk, head) == <<head>> \o SubSeq(snk, 1, Len(snk) - 1)

\* moveSnake: the terminal checks, in the order of the code
TickOutcome(snk, en, head) ==
    IF OutOfGrid(head) THEN "wall"
    ELSE IF WillCollide(snk, head) THEN "self"
    ELSE IF HitEnemy(en, head) THEN "enemy"
    ELSE "none"

\* The level-clear timer is a setTimeout of 100 ms; the next tick is due one
\* tick interval after the tick that set it, so a tick can run before the
\* timer only when the interval is at most 100 ms.
LEVEL_CLEAR_DELAY == 100
TickMayRun(timers, spd) == timers = <<>> \/ spd <= LEVEL_CLEAR_DELAY

\* gameLoop -> moveSnake: one simulation tick
MoveSnake(foodCells) ==
    /\ mounted /\ isVisible
    /\ gameState = "playing"
    /\ TickMayRun(lcTimers, speed)
    /\ ticks < MaxTicks
    /\ ticks' = ticks + 1
    /\ LET dir == NextHeading(direction, inputQueue)
           head == StepHead(snake[1], dir)
           outcome == TickOutcome(snake, enemies, head)
       IN  /\ direction' = dir
           /\ inputQueue' = IF Len(inputQueue) > 0 THEN Tail(inputQueue)
                            ELSE inputQueue
           /\ IF outcome # "none"
              THEN /\ LET c == Commit(gameState, isVisible, "gameover", isVisible,
                                      autoPaused, hasStarted)
                      IN  /\ gameState' = c.gs
                          /\ autoPaused' = c.ap
                          /\ manualPause' = ManualAfter(c.gs, FALSE)
                   /\ UNCHANGED <<snake, food, speed, score, highScore,
                                  isNewRecord, foodEatenThisLevel, lcTimers,
                                  storage>>
              ELSE IF head = food
              THEN /\ snake' = <<head>> \o snake
                   /\ LET newScore == score + FOOD_SCORE
                      IN  /\ score' = newScore
                          /\ highScore' = IF ExceedsRecord(newScore, highScore) THEN newScore
                                          ELSE highScore
                          /\ isNewRecord' = IF ExceedsRecord(newScore, highScore) THEN TRUE
                                            ELSE isNewRecord
                          /\ storage' = IF ExceedsRecord(newScore, highScore)
                                        THEN SafeSetItem(storage, storageFails,
                                                 "highScore", NumberToString(newScore))
                                        ELSE storage
                   /\ LET newCount == foodEatenThisLevel + 1
                      IN  /\ foodEatenThisLevel' = newCount
                          /\ lcTimers' = IF newCount >= FOOD_PER_LEVEL
                                         THEN Append(lcTimers, highScore)
                                         ELSE lcTimers
                   /\ speed' = SpeedUp(speed)
                   /\ food' \in SpawnFood(snake', enemies, foodCells)
                   /\ UNCHANGED <<gameState, autoPaused, manualPause>>
              ELSE /\ snake' = ShiftSnake(snake, head)
                   /\ UNCHANGED <<gameState, autoPaused, manualPause, food, speed,
                                  score, highScore, isNewRecord,
                                  foodEatenThisLevel, lcTimers, storage>>
    /\ reverseDropped' = (reverseDropped \/
                          (Len(inputQueue) > 0 /\
                           Head(inputQueue) = Opposite(direction)))
    /\ UNCHANGED <<level, highLevel, enemies, hasStarted, lifeVars, hofVars,
                   remoteVars, keys, saves, foreign>>
    /\ UNCHANGED storeRest

\* The callback of the level-clear setTimeout of moveSnake.  It has no guard
\* and is not cleared by any cleanup; `hs` is the highScore of its closure.
\* After the teardown React drops its state updates, but the updater of
\* setScore, which holds the write to local storage, may still be run.
LevelClearTimer ==
    /\ lcTimers # <<>>
    /\ lcTimers' = Tail(lcTimers)
    /\ IF mounted
       THEN /\ LET hs == Head(lcTimers)
                   newScore == score + LEVEL_CLEAR_SCORE
               IN  /\ score' = newScore
                   /\ highScore' = IF ExceedsRecord(newScore, hs) THEN newScore
                                   ELSE highScore
                   /\ isNewRecord' = IF ExceedsRecord(newScore, hs) THEN TRUE
                                     ELSE isNewRecord
                   /\ storage' = IF ExceedsRecord(newScore, hs)
                                 THEN SafeSetItem(storage, storageFails,
                                          "highScore", NumberToString(newScore))
                                 ELSE storage
            /\ LET c == Commit(gameState, isVisible, "levelclear", isVisible,
                               autoPaused, hasStarted)
               IN  /\ gameState' = c.gs
                   /\ autoPaused' = c.ap
                   /\ manualPause' = ManualAfter(c.gs, FALSE)
       ELSE /\ LET hs == Head(lcTimers)
                   newScore == score + LEVEL_CLEAR_SCORE
               IN  \/ storage' = IF ExceedsRecord(newScore, hs)
                                 THEN SafeSetItem(storage, storageFails,
                                          "highScore", NumberToString(newScore))
                                 ELSE storage
                   \/ storage' = storage
            /\ UNCHANGED <<score, highScore, isNewRecord, gameState,
                           autoPaused, manualPause>>
    /\ UNCHANGED <<level, highLevel, foodEatenThisLevel, gridVars, hasStarted,
                   lifeVars, hofVars, remoteVars, ticks, keys, saves, foreign,
                   reverseDropped>>
    /\ UNCHANGED storeRest

\* ------------------------------------------------------------------ Hall of Fame
\* A HallOfFameEntry: name (a sequence of characters), score, level, ts and
\* id (0 when the entry has none).  A row of the remote table has created_at
\* in place of ts.
Entry(name, sc, lvl, ts, id) ==
    [name |-> name, score |-> sc, level |-> lvl, ts |-> ts, id |-> id]

Take(seq, n) == SubSeq(seq, 1, Min(Len(seq), n))

\* name.slice(0, CONFIG.NAME_MAX_CHARS)
NameSlice(name) == Take(name, NAME_MAX_CHARS)

\* loadHallOfFame: the entries of the stored snapshot, without their ids,
\* cut to ten
LoadHallOfFame(stored) ==
    Take([i \in 1..Len(stored) |->
             Entry(NameSlice(stored[i].name), stored[i].score, stored[i].level,
                   stored[i].ts, 0)],
         HOF_SIZE)

\* the comparator of mergeHallOfFame: (b.score - a.score) || (b.ts - a.ts)
Compare(a, b) ==
    IF b.score - a.score # 0 THEN b.score - a.score ELSE b.ts - a.ts

\* Array.prototype.sort is stable: an element goes behind the elements that
\* do not compare after it
RECURSIVE InsertSorted(_, _)
InsertSorted(e, sorted) ==
    IF sorted = <<>> THEN <<e>>
    ELSE IF Compare(Head(sorted), e) <= 0
         THEN <<Head(sorted)>> \o InsertSorted(e, Tail(sorted))
         ELSE <<e>> \o sorted

RECURSIVE SortEntries(_)
SortEntries(seq) ==
    IF seq = <<>> THEN <<>>
    ELSE InsertSorted(seq[Len(seq)], SortEntries(SubSeq(seq, 1, Len(seq) - 1)))

\* mergeHallOfFame without its sort: the new entry goes to the front
MergeHallOfFameUnsorted(entry, prev) == Take(<<entry>> \o prev, HOF_SIZE)

\* mergeHallOfFame without its slice
MergeHallOfFameUncut(entry, prev) == SortEntries(<<entry>> \o prev)

\* mergeHallOfFame: the updater of setHallOfFame
MergeHallOfFame(entry, prev) ==
    Take(SortEntries(<<entry>> \o prev), HOF_SIZE)

\* getHofCutoff: hallOfFame.reduce((min, entry) => Math.min(min, entry.score),
\* hallOfFame[0].score)
RECURSIVE ReduceMin(_, _, _)
ReduceMin(hof, i, min) ==
    IF i > Len(hof) THEN min
    ELSE ReduceMin(hof, i + 1, Min(min, hof[i].score))

\* getHofCutoff
GetHofCutoff(hof) ==
    IF Len(hof) < HOF_SIZE THEN Null
    ELSE <<ReduceMin(hof, 1, hof[1].score)>>

\* qualifiesForHof with >= in place of >: a tie with the cutoff qualifies
QualifiesForHofTie(candidateScore, hof) ==
    IF candidateScore <= 0 THEN FALSE
    ELSE IF Len(hof) < HOF_SIZE THEN TRUE
    ELSE LET cutoff == GetHofCutoff(hof)
         IN  cutoff # Null /\ candidateScore >= cutoff[1]

\* qualifiesForHof
QualifiesForHof(candidateScore, hof) ==
    IF candidateScore <= 0 THEN FALSE
    ELSE IF Len(hof) < HOF_SIZE THEN TRUE
    ELSE LET cutoff == GetHofCutoff(hof)
         IN  cutoff # Null /\ candidateScore > cutoff[1]

\* The remote select: order by score desc, created_at desc, limit 10.
RowBefore(a, b) ==
    \/ a.score > b.score
    \/ (a.score = b.score /\ a.ts > b.ts)
    \/ (a.score = b.score /\ a.ts = b.ts /\ a.id < b.id)

RECURSIVE OrderRows(_)
OrderRows(rows) ==
    IF rows = {} THEN <<>>
    ELSE LET first == CHOOSE r \in rows : \A o \in rows \ {r} : RowBefore(r, o)
         IN  <<first>> \o OrderRows(rows \ {first})

SelectTop(rows) == Take(OrderRows(rows), HOF_SIZE)

\* loadHallOfFameOnline: the rows of a response mapped to entries; rows
\* without a name are dropped
MapRows(data) ==
    LET mapped == [i \in 1..Len(data) |->
                      Entry(NameSlice(data[i].name), data[i].score,
                            data[i].level, data[i].ts, data[i].id)]
    IN  SelectSeq(mapped, LAMBDA e : Len(e.name) > 0)

\* handleNameChange: white space and other characters are removed, the rest
\* is cut to eight characters and put in upper case
UpperCase(ch) == IF ch = "a" THEN "A" ELSE ch
Sanitize(value) ==
    LET kept == SelectSeq(value, LAMBDA ch : ch \in {"a", "A"})
        cut == NameSlice(kept)
    IN  [i \in 1..Len(cut) |-> UpperCase(cut[i])]

\* String.prototype.trim
RECURSIVE TrimLeft(_)
TrimLeft(str) ==
    IF str # <<>> /\ Head(str) = " " THEN TrimLeft(Tail(str)) ELSE str
RECURSIVE TrimRight(_)
TrimRight(str) ==
    IF str # <<>> /\ str[Len(str)] = " "
    THEN TrimRight(SubSeq(str, 1, Len(str) - 1)) ELSE str
Trim(str) == TrimRight(TrimLeft(str))

\* The error of a failed request: the object the client returns or throws,
\* with the four fields formatSupabaseError looks at (empty when absent).
\* NoReason is an error that carries none of them (or no error object).
NoReason == [message |-> <<>>, details |-> <<>>, hint |-> <<>>, code |-> <<>>]
NetworkError ==
    [NoReason EXCEPT !.message = <<"TypeError:", "Failed", "to", "fetch">>]
ValueTooLong ==
    [NoReason EXCEPT
        !.message = <<"value", "too", "long", "for", "type", "character",
                      "varying(5)">>,
        !.code = <<"22001">>]

\* [..].filter(Boolean).join(' | ')
RECURSIVE Join(_)
Join(parts) ==
    IF parts = <<>> THEN <<>>
    ELSE IF Len(parts) = 1 THEN parts[1]
    ELSE parts[1] \o <<"|">> \o Join(Tail(parts))

UnknownError == <<"Ismeretlen", "hiba">>

\* formatSupabaseError without the fields: what the error carries is dropped
FormatSupabaseErrorUnknown(error) == UnknownError

\* formatSupabaseError
FormatSupabaseError(error) ==
    LET fields == <<error.message, error.details, error.hint, error.code>>
        joined == Join(SelectSeq(fields, LAMBDA field : field # <<>>))
    IN  IF joined = <<>> THEN UnknownError ELSE joined

\* the notices of the Hall of Fame (hofError; Null when there is none)
SlowNotice ==
    <<"Online", "lista", "lassu.", "Megmutatom", "a", "helyi", "listat.">>
LoadErrorNotice(error) ==
    <<"Online", "lista", "hiba:">> \o FormatSupabaseError(error)
SaveErrorNotice(error) ==
    <<"Online", "mentes", "sikertelen:">> \o FormatSupabaseError(error)

\* loadHallOfFameOnline before its await: the request id is taken, the
\* error notice cleared, the select sent
IssueFetch ==
    /\ hofRequestId' = hofRequestId + 1
    /\ fetches' = fetches \cup {[rid |-> hofRequestId + 1, st |-> "sent",
                                 rows |-> <<>>]}

\* the remote operations so far
Ops == saves + foreign + Max(hofRequestId - 1, 0)

\* Date.now() of the client at its n-th submission, and NOW() of the store
\* for the next row of a table: both clocks only move forward.
Now(n) == 100 + n
StoreNow(table) == 200 + Cardinality(table)

\* The name field and the save button of the game-over overlay are
\* rendered for a positive score that qualifies, once the list is known.
SaveFormShown ==
    /\ gameState = "gameover"
    /\ score > 0
    /\ (~ hasSupabaseConfig \/ ~ hofLoading \/ Len(hallOfFame) > 0)
    /\ QualifiesForHof(score, hallOfFame)

\* the `disabled` attribute of the save button
SaveButtonEnabled(saved, name) == ~ saved /\ Len(Trim(name)) # 0

\* handleSaveScore without a test of the score: neither its own early
\* return nor the one of qualifiesForHof
SaveAcceptedAnyScore(saved, sc, hof, name) ==
    /\ ~ saved
    /\ ~ (hasSupabaseConfig /\ hofLoading /\ Len(hof) = 0)
    /\ (IF Len(hof) < HOF_SIZE THEN TRUE
        ELSE sc > ReduceMin(hof, 1, hof[1].score))
    /\ Len(NameSlice(Trim(name))) # 0

\* handleSaveScore: none of its early returns is taken
SaveAccepted(saved, sc, hof, name) ==
    /\ ~ (saved \/ sc <= 0)
    /\ ~ (hasSupabaseConfig /\ hofLoading /\ Len(hof) = 0)
    /\ QualifiesForHof(sc, hof)
    /\ Len(NameSlice(Trim(name))) # 0

\* handleNameChange (the name field)
HandleNameChange(value) ==
    /\ mounted /\ isVisible
    /\ SaveFormShown
    /\ playerName' = Sanitize(value)
    /\ playerName' # playerName
    /\ UNCHANGED <<gameVars, gridVars, pauseVars, lifeVars, lcTimers,
                   hasSupabaseConfig, hallOfFame, storedHof, hofStoredByApp,
                   hasSavedScore, hofLoading, hofError, hofRequestId, hofTimer,
                   remoteVars, histVars>>
    /\ UNCHANGED storeVars

\* handleSaveScore up to its await: with a remote the insert is sent and the
\* handler suspends; without one the entry is merged at once.
SaveScore ==
    /\ SaveAccepted(hasSavedScore, score, hallOfFame, playerName)
    /\ Ops < MaxOps
    /\ saves' = saves + 1
    /\ LET entry == Entry(NameSlice(Trim(playerName)), score, level,
                       Now(saves), 0)
       IN  IF hasSupabaseConfig
           THEN /\ hofError' = Null
                /\ inserts' = inserts \cup
                       {[n |-> saves + 1, entry |-> entry, st |-> "sent",
                         err |-> NoReason]}
                /\ UNCHANGED <<hallOfFame, storedHof, hofStoredByApp,
                               hasSavedScore>>
           ELSE /\ hallOfFame' = MergeHallOfFame(entry, hallOfFame)
                /\ storedHof' = WriteSnapshot(hallOfFame')
                /\ hofStoredByApp' = (hofStoredByApp \/ ~storageFails)
                /\ hasSavedScore' = TRUE
                /\ UNCHANGED <<hofError, inserts>>
    /\ UNCHANGED <<gameVars, gridVars, pauseVars, lifeVars, lcTimers,
                   hasSupabaseConfig, playerName, hofLoading, hofRequestId,
                   hofTimer, fetches, remoteTable, notifs, manualPause, ticks,
                   keys, foreign,
                   reverseDropped>>
    /\ storage' = SafeSetItem(storage, storageFails, "lastName",
                              NameSlice(Trim(playerName)))
    /\ UNCHANGED storeRest

\* handleSaveScore, called by a click on the save button: the button is
\* rendered and enabled
HandleSaveScore ==
    /\ mounted /\ isVisible
    /\ SaveFormShown
    /\ SaveButtonEnabled(hasSavedScore, playerName)
    /\ SaveScore

\* handleSaveScore, called whatever the overlay shows: only the early
\* returns of the handler decide
InvokeSaveScore ==
    /\ mounted
    /\ SaveScore

\* The remote table takes or refuses an insert.  name is VARCHAR(5); the
\* store assigns id and created_at and notifies the subscribed channel.  A
\* refused insert fails with the error of the column, any insert can fail on
\* the way.
NAME_COLUMN_CHARS == 5
InsertErrors(entry) ==
    {NetworkError, NoReason} \cup
    (IF Len(entry.name) > NAME_COLUMN_CHARS THEN {ValueTooLong} ELSE {})
ServeInsert(i, ok) ==
    /\ i \in inserts /\ i.st = "sent"
    /\ ok => Len(i.entry.name) <= NAME_COLUMN_CHARS
    /\ IF ok
       THEN inserts' = (inserts \ {i}) \cup {[i EXCEPT !.st = "ok"]}
       ELSE \E err \in InsertErrors(i.entry) :
                inserts' = (inserts \ {i}) \cup
                           {[i EXCEPT !.st = "err", !.err = err]}
    /\ IF ok
       THEN /\ remoteTable' = remoteTable \cup
                   {Entry(i.entry.name, i.entry.score, i.entry.level,
                          StoreNow(remoteTable), 20 + i.n)}
            /\ notifs' = IF mounted THEN notifs + 1 ELSE notifs
       ELSE UNCHANGED <<remoteTable, notifs>>
    /\ UNCHANGED <<gameVars, gridVars, pauseVars, lifeVars, lcTimers, hofVars,
                   fetches, histVars>>
    /\ UNCHANGED storeVars

\* handleSaveScore after its await.  Nothing here looks at
\* hofIsMountedRef.  While the component is mounted the entry is merged, the
\* snapshot written and hasSavedScore set; after a successful insert
\* loadHallOfFameOnline(false) is started.  After the teardown React drops
\* the state updates and loadHallOfFameOnlineRef is null, but the updater of
\* mergeHallOfFame, which holds the write to local storage, may still be run
\* (React evaluates the updater of an idle queue at once) or may not.
InsertResponse(i) ==
    /\ i \in inserts /\ i.st # "sent"
    /\ inserts' = inserts \ {i}
    /\ IF mounted
       THEN /\ hallOfFame' = MergeHallOfFame(i.entry, hallOfFame)
            /\ storedHof' = WriteSnapshot(hallOfFame')
            /\ hofStoredByApp' = (hofStoredByApp \/ ~storageFails)
            /\ hasSavedScore' = TRUE
            /\ IF i.st = "ok"
               THEN /\ Ops < MaxOps
                    /\ IssueFetch
                    /\ hofError' = Null
               ELSE /\ hofError' = SaveErrorNotice(i.err)
                    /\ UNCHANGED <<hofRequestId, fetches>>
       ELSE /\ \/ /\ storedHof' = WriteSnapshot(MergeHallOfFame(i.entry, hallOfFame))
                  /\ hofStoredByApp' = (hofStoredByApp \/ ~storageFails)
               \/ UNCHANGED <<storedHof, hofStoredByApp>>
            /\ UNCHANGED <<hallOfFame, hasSavedScore, hofError, hofRequestId,
                           fetches>>
    /\ UNCHANGED <<gameVars, gridVars, pauseVars, lifeVars, lcTimers,
                   hasSupabaseConfig, playerName, hofLoading, hofTimer,
                   remoteTable, notifs, histVars>>
    /\ UNCHANGED storeVars

\* the postgres_changes callback of the channel: loadHallOfFameOnline(false)
ChangeNotification ==
    /\ mounted
    /\ notifs > 0
    /\ Ops < MaxOps
    /\ notifs' = notifs - 1
    /\ IssueFetch
    /\ hofError' = Null
    /\ UNCHANGED <<gameVars, gridVars, pauseVars, lifeVars, lcTimers,
                   hasSupabaseConfig, hallOfFame, storedHof, hofStoredByApp,
                   playerName, hasSavedScore, hofLoading, hofTimer, inserts,
                   remoteTable, histVars>>
    /\ UNCHANGED storeVars

\* another client inserts a row
ForeignInsert ==
    /\ hasSupabaseConfig
    /\ Ops < MaxOps
    /\ foreign' = foreign + 1
    /\ remoteTable' = remoteTable \cup
           {Entry(<<"B">>, 3, 1, StoreNow(remoteTable), 30 + foreign)}
    /\ notifs' = IF mounted THEN notifs + 1 ELSE notifs
    /\ UNCHANGED <<gameVars, gridVars, pauseVars, lifeVars, lcTimers, hofVars,
                   fetches, inserts, manualPause, ticks, keys, saves,
                   reverseDropped>>
    /\ UNCHANGED storeVars

\* the remote answers a select: the top rows of the table, or an error
ServeFetch(f, ok) ==
    /\ f \in fetches /\ f.st = "sent"
    /\ fetches' = (fetches \ {f}) \cup
           {IF ok THEN [f EXCEPT !.st = "ok", !.rows = SelectTop(remoteTable)]
            ELSE [f EXCEPT !.st = "err"]}
    /\ UNCHANGED <<gameVars, gridVars, pauseVars, lifeVars, lcTimers, hofVars,
                   inserts, remoteTable, notifs, histVars>>
    /\ UNCHANGED storeVars

\* the guards without the comparison of the request id
RequestIsCurrentAnyId(isMounted, current, requestId) == isMounted

\* loadHallOfFameOnline: the two guards after the await, and the same two
\* guards of the slow-loading timer
RequestIsCurrent(isMounted, current, requestId) ==
    isMounted /\ current = requestId

\* loadHallOfFameOnline after its await
FetchResponse(f) ==
    /\ f \in fetches /\ f.st # "sent"
    /\ fetches' = fetches \ {f}
    /\ IF ~ RequestIsCurrent(mounted, hofRequestId, f.rid)
       THEN UNCHANGED hofState
       ELSE IF f.st = "err"
       THEN /\ hofError' = LoadErrorNotice(NetworkError)
            /\ hofLoading' = FALSE
            /\ UNCHANGED <<hallOfFame, storedHof, hofStoredByApp>>
       ELSE /\ hallOfFame' = MapRows(f.rows)
            /\ storedHof' = WriteSnapshot(hallOfFame')
            /\ hofStoredByApp' = (hofStoredByApp \/ ~storageFails)
            /\ hofError' = Null
            /\ hofLoading' = FALSE
    /\ UNCHANGED <<gameVars, gridVars, pauseVars, lifeVars, lcTimers,
                   hasSupabaseConfig, playerName, hasSavedScore, hofRequestId,
                   hofTimer, inserts, remoteTable, notifs, histVars>>
    /\ UNCHANGED storeVars

\* The callback of the slow-loading timer, set by the first
\* loadHallOfFameOnline(true), whose request id is 1.
SlowTimer ==
    /\ hofTimer = "pending"
    /\ hofTimer' = "fired"
    /\ IF RequestIsCurrent(mounted, hofRequestId, 1) /\ Len(hallOfFame) = 0
       THEN /\ hofLoading' = FALSE
            /\ hofError' = SlowNotice
       ELSE UNCHANGED <<hofLoading, hofError>>
    /\ UNCHANGED <<gameVars, gridVars, pauseVars, lifeVars, lcTimers,
                   hasSupabaseConfig, hallOfFame, storedHof, hofStoredByApp,
                   playerName, hasSavedScore, hofRequestId, remoteVars,
                   histVars>>
    /\ UNCHANGED storeVars

\* The component is torn down: the cleanups of its effects run.  The Hall of
\* Fame cleanup clears the mounted flag and the slow-loading timer and
\* removes the channel; the game loop's cancels its animation frame.
Unmount ==
    /\ mounted
    /\ mounted' = FALSE
    /\ hofTimer' = IF hofTimer = "pending" THEN "cleared" ELSE hofTimer
    /\ notifs' = 0
    /\ UNCHANGED <<gameVars, gridVars, pauseVars, isVisible, lcTimers,
                   hasSupabaseConfig, hallOfFame, storedHof, hofStoredByApp,
                   playerName, hasSavedScore, hofLoading, hofError,
                   hofRequestId, fetches, inserts, remoteTable, histVars>>
    /\ UNCHANGED storeVars

\* ------------------------------------------------------------------ App actions
\* The tree is rendered: no exception left an initializer or an effect.
Alive == crashed \notin {"initializer", "effect"}
AppMayAct == Alive /\ app.ops < MaxAppOps

\* the theme button, then the effect that writes the theme
ToggleTheme ==
    /\ AppMayAct
    /\ LET dark == ~ app.isDarkMode
           write == SetItem(storage, storageFails, "theme", ThemeName(dark))
       IN  /\ app' = [app EXCEPT !.isDarkMode = dark, !.ops = @ + 1]
           /\ storage' = write.store
           /\ crashed' = IF write.threw THEN "effect" ELSE crashed
    /\ UNCHANGED <<storageFails, loaded, gameAll>>

\* handleDragEnd, then the effect that writes the card order
HandleDragEnd(active, over) ==
    /\ AppMayAct
    /\ active # over
    /\ LET items == app.currencyOrder
           moved == ArrayMove(items, IndexOf(items, active),
                              IndexOf(items, over))
           write == SetItem(storage, storageFails, "currencyOrder",
                            JsonStringify(moved))
       IN  /\ app' = [app EXCEPT !.currencyOrder = moved, !.ops = @ + 1]
           /\ storage' = write.store
           /\ crashed' = IF write.threw THEN "effect" ELSE crashed
    /\ UNCHANGED <<storageFails, loaded, gameAll>>

\* updateAnalyticsConsent: the state is set, then a bare setItem
UpdateAnalyticsConsent(value) ==
    /\ AppMayAct
    /\ LET write == SetItem(storage, storageFails, "analyticsConsent",
                            <<value>>)
       IN  /\ app' = [app EXCEPT !.analyticsConsent = <<value>>, !.ops = @ + 1]
           /\ storage' = write.store
           /\ crashed' = IF write.threw THEN "handler" ELSE crashed
    /\ UNCHANGED <<storageFails, loaded, gameAll>>

\* resetAnalyticsConsent
ResetAnalyticsConsent ==
    /\ AppMayAct
    /\ app.analyticsConsent # Null
    /\ storage' = [storage EXCEPT !.analyticsConsent = Null]
    /\ app' = [app EXCEPT !.analyticsConsent = Null, !.ops = @ + 1]
    /\ UNCHANGED <<storageFails, loaded, crashed, gameAll>>

\* fetchRates up to its await, called by the interval, a visibility change
\* or a focus, whether or not an earlier request is still in flight
FetchRates ==
    /\ AppMayAct
    /\ app' = [app EXCEPT !.error = Null, !.pending = @ + 1, !.ops = @ + 1]
    /\ UNCHANGED <<storage, storageFails, loaded, crashed, gameAll>>

\* fetchRates after its await, for any of the requests in flight; the n-th
\* response of the page brings the rates FreshRates(n).  The write of the
\* cached rates is inside the try block: when it throws, the catch block
\* runs as it does for a failed request and sets the notice unless rates are
\* cached.  `fetch` is the outcome of the last response, `failed` whether a
\* request failed since the page was loaded.
FetchRatesResponse(ok) ==
    /\ Alive
    /\ app.pending > 0
    /\ LET fresh == FreshRates(app.responses + 1)
           write == SetItem(storage, storageFails, "cachedRates",
                            JsonStringify(fresh))
           caught == ~ ok \/ write.threw
           store == IF ok THEN write.store ELSE storage
       IN  /\ storage' = store
           /\ app' = [app EXCEPT
                  !.rates = IF ok THEN fresh ELSE @,
                  !.error = IF caught /\ store.cachedRates = Null
                            THEN RatesNotice ELSE @,
                  !.isLoading = FALSE,
                  !.pending = @ - 1,
                  !.responses = @ + 1,
                  !.fetch = IF ok THEN "done" ELSE "failed",
                  !.failed = @ \/ ~ ok]
    /\ UNCHANGED <<storageFails, loaded, crashed, gameAll>>

\* the storage starts to refuse writes (the quota is reached)
QuotaExceeded ==
    /\ Alive
    /\ ~ storageFails
    /\ storageFails' = TRUE
    /\ UNCHANGED <<storage, loaded, app, crashed, gameAll>>

\* The page is loaded again before a game was started: every initializer
\* reads the storage as the page left it, and the mount effects run again.
\* The game is hidden again (isGameMode starts false).
Reload ==
    /\ app.ops < MaxAppOps
    /\ gameState = "menu" /\ ~ hasStarted /\ ~ autoPaused /\ saves = 0
    /\ LET page == LoadPage(storage, storageFails)
       IN  /\ storage' = page.storage
           /\ loaded' = page.loaded
           /\ app' = [page.app EXCEPT !.ops = app.ops + 1]
           /\ crashed' = page.crashed
           /\ highScore' = page.loaded.highScore.v
           /\ highLevel' = page.loaded.highLevel.v
    /\ playerName' = ReadPlayerName(storage)
    /\ isVisible' = FALSE
    /\ UNCHANGED <<storageFails, gameState, score, isNewRecord, level,
                   foodEatenThisLevel, gridVars, pauseVars, mounted, lcTimers,
                   hasSupabaseConfig, hallOfFame, storedHof, hofStoredByApp,
                   hasSavedScore, hofLoading, hofError, hofRequestId, hofTimer,
                   remoteVars, histVars>>

\* ------------------------------------------------------------------ init
\* The component after construction and its mount effects, without the
\* Hall of Fame part; the high score and high level are those found in
\* local storage (0 and 1 when the keys are missing).
InitGame(savedHighScore, savedHighLevel) ==
    /\ gameState = "menu"
    /\ score = 0
    /\ highScore = savedHighScore
    /\ isNewRecord = FALSE
    /\ level = 1
    /\ highLevel = savedHighLevel
    /\ foodEatenThisLevel = 0
    /\ snake = <<<<7, 7>>>>
    /\ direction = "RIGHT"
    /\ inputQueue = <<>>
    /\ food = <<10, 7>>
    /\ enemies = <<>>
    /\ speed = INITIAL_SPEED
    /\ autoPaused = FALSE
    /\ hasStarted = FALSE
    /\ isVisible = FALSE
    /\ mounted = TRUE
    /\ lcTimers = <<>>
    /\ manualPause = FALSE
    /\ ticks = 0
    /\ keys = 0
    /\ saves = 0
    /\ foreign = 0
    /\ reverseDropped = FALSE

\* The Hall of Fame part after construction and its mount effects: the list
\* is loaded from the stored snapshot; with a remote the first
\* loadHallOfFameOnline(true) has taken request id 1, set its slow-loading
\* timer and sent its select.
InitHof(configured, stored, table) ==
    /\ hasSupabaseConfig = configured
    /\ hallOfFame = LoadHallOfFame(stored)
    /\ storedHof = stored
    /\ hofStoredByApp = FALSE
    /\ playerName = <<>>
    /\ hasSavedScore = FALSE
    /\ hofLoading = configured
    /\ hofError = Null
    /\ hofRequestId = IF configured THEN 1 ELSE 0
    /\ hofTimer = IF configured THEN "pending" ELSE "none"
    /\ fetches = IF configured
                 THEN {[rid |-> 1, st |-> "sent", rows |-> <<>>]} ELSE {}
    /\ inserts = {}
    /\ remoteTable = table
    /\ notifs = 0

\* No remote configured, nothing stored.
InitLocalOnly == InitHof(FALSE, <<>>, {})

\* A returning player: the stored records are out of reach of the bounded
\* games, so every game starts from the same records.
StoredRecords == [highScore |-> 40, highLevel |-> 5]

\* local storage of a first visit and of the returning player
EmptyStorage ==
    [highScore |-> Null, highLevel |-> Null, lastName |-> Null,
     cachedRates |-> Null, theme |-> Null, currencyOrder |-> Null,
     analyticsConsent |-> Null]
ReturningStorage ==
    [EmptyStorage EXCEPT !.highScore = NumberToString(StoredRecords.highScore),
                         !.highLevel = NumberToString(StoredRecords.highLevel)]

\* local storage, the records read from it and App after the page is loaded
InitStore(store, fails) ==
    LET page == LoadPage(store, fails)
    IN  /\ storage = page.storage
        /\ storageFails = fails
        /\ loaded = page.loaded
        /\ app = page.app
        /\ crashed = page.crashed

Init ==
    /\ InitGame(ReadHighScore(ReturningStorage).v,
                ReadHighLevel(ReturningStorage).v)
    /\ InitLocalOnly
    /\ InitStore(ReturningStorage, FALSE)

Next ==
    \/ StartGame(FoodSampleCells)
    \/ ResumeGame
    \/ NextLevel(FoodSampleCells, EnemySampleCells)
    \/ \E how \in {"button", "key"} : UserPause(how)
    \/ \E d \in Direction : KeyDown(d)
    \/ ToggleGameMode
    \/ HandleClose
    \/ MoveSnake(FoodSampleCells)
    \/ LevelClearTimer

Spec == Init /\ [][Next]_vars

\* ------------------------------------------------------------------ level specification
\* A game at the start of its first, second or third level, as startGame and
\* nextLevel leave it: the snake at the centre, the tick interval of the
\* level, level - 1 enemies, the score of the levels cleared before.  The
\* enemies are drawn away from the row of the snake so that the level can be
\* played to its eighth food within MaxTicks.
LevelEnemyCells == {<<3, 3>>, <<11, 11>>, <<3, 11>>}

InitLevel ==
    /\ \E lv \in 1..3 :
           /\ level = lv
           /\ score = (lv - 1) * (FOOD_PER_LEVEL * FOOD_SCORE + LEVEL_CLEAR_SCORE)
           /\ speed = LevelSpeed(lv)
           /\ enemies = CHOOSE placed \in SpawnEnemiesForLevel(lv, InitialSnake,
                                                 LevelEnemyCells) : TRUE
    /\ gameState = "playing"
    /\ highScore = StoredRecords.highScore
    /\ isNewRecord = FALSE
    /\ highLevel = StoredRecords.highLevel
    /\ foodEatenThisLevel = 0
    /\ snake = InitialSnake
    /\ direction = "RIGHT"
    /\ inputQueue = <<>>
    /\ food \in SpawnFood(snake, enemies, FoodSampleCells)
    /\ autoPaused = FALSE
    /\ hasStarted = TRUE
    /\ isVisible = TRUE
    /\ mounted = TRUE
    /\ lcTimers = <<>>
    /\ manualPause = FALSE
    /\ ticks = 0
    /\ keys = 0
    /\ saves = 0
    /\ foreign = 0
    /\ reverseDropped = FALSE
    /\ InitLocalOnly
    /\ InitStore(ReturningStorage, FALSE)

\* The game stays open; the only direction key is DOWN, the only pause is
\* the pause key.
NextInLevel ==
    \/ StartGame(FoodSampleCells)
    \/ ResumeGame
    \/ NextLevel(FoodSampleCells, LevelEnemyCells)
    \/ UserPause("key")
    \/ KeyDown("DOWN")
    \/ MoveSnake(FoodSampleCells)
    \/ LevelClearTimer

SpecLevel == InitLevel /\ [][NextInLevel]_vars

\* The same games while animation frames keep firing and timers run: the
\* game loop calls moveSnake whenever a tick is due, and the callback of a
\* pending level-clear timer is run.  The handlers of the player are under
\* no such condition.
SpecLevelLive ==
    /\ SpecLevel
    /\ WF_vars(MoveSnake(FoodSampleCells))
    /\ WF_vars(LevelClearTimer)

\* ------------------------------------------------------------------ tick specification
\* A game in the middle of a level: the snake has eaten up to three foods
\* and lies straight before the right wall or coiled next to its own tail.
\* Each shape is one the snake reaches from the initial snake by food ticks
\* and turns.
TickSnakes ==
    {<<<<13, 7>>, <<12, 7>>, <<11, 7>>>>,
     <<<<8, 8>>, <<9, 8>>, <<9, 7>>, <<8, 7>>>>,
     <<<<8, 8>>, <<9, 8>>, <<9, 7>>, <<8, 7>>, <<7, 7>>>>,
     <<<<8, 9>>, <<8, 8>>, <<9, 8>>, <<9, 7>>, <<8, 7>>, <<7, 7>>>>}
TickEnemies == {<<>>, <<<<8, 9>>>>, <<<<7, 8>>>>, <<<<14, 7>>>>}
TickFoodCells == {<<8, 7>>, <<7, 8>>, <<8, 9>>, <<14, 7>>, <<2, 2>>}

\* directionRef after a tick: the step from the neck to the head
HeadingOf(snk) ==
    CHOOSE d \in {"UP", "DOWN", "LEFT", "RIGHT"} : StepHead(snk[2], d) = snk[1]

InitTick ==
    /\ snake \in TickSnakes
    /\ enemies \in {en \in TickEnemies : Cells(en) \cap Cells(snake) = {}}
    /\ level = Len(enemies) + 1
    /\ foodEatenThisLevel = Len(snake) - 3
    /\ score = (level - 1) * (FOOD_PER_LEVEL * FOOD_SCORE + LEVEL_CLEAR_SCORE)
                  + foodEatenThisLevel * FOOD_SCORE
    /\ speed = LevelSpeed(level) - foodEatenThisLevel * SPEED_DECREASE
    /\ direction = HeadingOf(snake) /\ inputQueue = <<>>
    /\ food \in SpawnFood(snake, enemies, TickFoodCells)
    /\ gameState = "playing" /\ highScore = StoredRecords.highScore /\ isNewRecord = FALSE
    /\ highLevel = StoredRecords.highLevel
    /\ autoPaused = FALSE /\ hasStarted = TRUE /\ isVisible = TRUE /\ mounted = TRUE
    /\ lcTimers = <<>> /\ manualPause = FALSE /\ ticks = 0 /\ keys = 0 /\ saves = 0
    /\ foreign = 0 /\ reverseDropped = FALSE
    /\ InitLocalOnly /\ InitStore(ReturningStorage, FALSE)

NextTick ==
    \/ \E d \in {"UP", "DOWN", "LEFT", "RIGHT"} : KeyDown(d)
    \/ MoveSnake(TickFoodCells)

SpecTick == InitTick /\ [][NextTick]_vars

\* ------------------------------------------------------------------ speed specification
\* Games at the start of a low level and of the levels on which the tick
\* interval reaches MIN_SPEED: level 7 starts at 90 ms and reaches 60 ms with
\* the sixth food, level 11 starts at the floor.  The enemies of the level
\* lie in row 3, away from the snake; the records are those of the player
\* who has reached this level.
SpeedEnemyRow == [i \in 1..10 |-> <<i + 1, 3>>]

InitSpeed ==
    /\ level \in {1, 7, 11}
    /\ score = (level - 1) * (FOOD_PER_LEVEL * FOOD_SCORE + LEVEL_CLEAR_SCORE)
    /\ speed = LevelSpeed(level)
    /\ enemies = SubSeq(SpeedEnemyRow, 1, level - 1)
    /\ gameState = "playing"
    /\ highScore = Max(StoredRecords.highScore, score)
    /\ isNewRecord = (score > StoredRecords.highScore)
    /\ highLevel = Max(StoredRecords.highLevel, level)
    /\ foodEatenThisLevel = 0 /\ snake = InitialSnake
    /\ direction = "RIGHT" /\ inputQueue = <<>>
    /\ food \in SpawnFood(snake, enemies, FoodSampleCells)
    /\ autoPaused = FALSE /\ hasStarted = TRUE /\ isVisible = TRUE /\ mounted = TRUE
    /\ lcTimers = <<>> /\ manualPause = FALSE /\ ticks = 0 /\ keys = 0 /\ saves = 0
    /\ foreign = 0 /\ reverseDropped = FALSE
    /\ InitLocalOnly
    /\ LET page == LoadPage(ReturningStorage, FALSE)
       IN  /\ storage = [page.storage EXCEPT
                            !.highScore = NumberToString(highScore),
                            !.highLevel = NumberToString(highLevel)]
           /\ storageFails = FALSE
           /\ loaded = page.loaded
           /\ app = page.app
           /\ crashed = page.crashed

\* nextLevel is followed onto the levels whose enemies the sample cells hold
NextSpeed ==
    \/ MoveSnake(FoodSampleCells) \/ KeyDown("DOWN") \/ LevelClearTimer
    \/ StartGame(FoodSampleCells)
    \/ (level <= Cardinality(LevelEnemyCells) /\ NextLevel(FoodSampleCells, LevelEnemyCells))

SpecSpeed == InitSpeed /\ [][NextSpeed]_vars

\* ------------------------------------------------------------------ queue specification
\* A game at the start of level 1 with up to two directions pending, as
\* typed or swiped between two ticks, and one more key or swipe to come.
InitQueue ==
    /\ inputQueue \in {<<>>, <<"UP", "LEFT">>, <<"DOWN", "DOWN">>}
    /\ level = 1 /\ score = 0 /\ speed = LevelSpeed(1) /\ enemies = <<>>
    /\ gameState = "playing" /\ highScore = StoredRecords.highScore /\ isNewRecord = FALSE
    /\ highLevel = StoredRecords.highLevel /\ foodEatenThisLevel = 0 /\ snake = InitialSnake
    /\ direction = "RIGHT"
    /\ food \in SpawnFood(snake, enemies, FoodSampleCells)
    /\ autoPaused = FALSE /\ hasStarted = TRUE /\ isVisible = TRUE /\ mounted = TRUE
    /\ lcTimers = <<>> /\ manualPause = FALSE /\ ticks = 0 /\ keys = 0 /\ saves = 0
    /\ foreign = 0 /\ reverseDropped = FALSE
    /\ InitLocalOnly /\ InitStore(ReturningStorage, FALSE)

NextQueue ==
    \/ \E d \in {"UP", "DOWN"} : KeyDown(d)
    \/ \E d \in {"LEFT", "RIGHT"} : HandleTouchEnd(d)
    \/ MoveSnake(FoodSampleCells) \/ LevelClearTimer
    \/ StartGame(FoodSampleCells)
    \/ NextLevel(FoodSampleCells, LevelEnemyCells)

SpecQueue == InitQueue /\ [][NextQueue]_vars

\* ------------------------------------------------------------------ record specification
\* Games of a player whose stored high score is within reach: none stored,
\* or one that the level-clear bonus of the first level passes.
RecordInputs == {Null, NumberToString(3), NumberToString(10)}

InitRecord ==
    \E saved \in RecordInputs :
        LET store == [EmptyStorage EXCEPT !.highScore = saved]
        IN  /\ InitGame(ReadHighScore(store).v, ReadHighLevel(store).v)
            /\ InitLocalOnly
            /\ InitStore(store, FALSE)

\* The game is opened once; the only direction key is DOWN, the only pause
\* is the pause key, and the page is left only after a game.
NextRecord ==
    \/ (~ isVisible /\ ToggleGameMode)
    \/ StartGame(FoodSampleCells)
    \/ MoveSnake(FoodSampleCells)
    \/ KeyDown("DOWN")
    \/ UserPause("key")
    \/ ResumeGame
    \/ LevelClearTimer
    \/ NextLevel(FoodSampleCells, EnemySampleCells)
    \/ (gameState \in {"paused", "gameover"} /\ Unmount)

SpecRecord == InitRecord /\ [][NextRecord]_vars

\* ------------------------------------------------------------------ storage specification
\* The page is loaded on a storage that holds nothing, well-formed values,
\* or one value the page did not write: a number that is no number, a JSON
\* text that is none, an unknown theme or consent.  The storage may refuse
\* writes from the start or start to refuse them later.
StoredValues ==
    [highScore |-> NumberToString(2), highLevel |-> NumberToString(1),
     lastName |-> <<"A">>,
     cachedRates |-> JsonStringify(FreshRates(0)),
     theme |-> <<"dark">>,
     currencyOrder |-> JsonStringify(<<"USD", "EUR", "GBP", "CHF">>),
     analyticsConsent |-> <<"granted">>]
StorageInputs ==
    {EmptyStorage, StoredValues,
     [EmptyStorage EXCEPT !.highScore = <<"a", "b", "c">>],
     [EmptyStorage EXCEPT !.highScore = <<" ", "1", "p", "x">>],
     [EmptyStorage EXCEPT !.highLevel = <<"-">>],
     [EmptyStorage EXCEPT !.cachedRates = <<"{">>],
     [EmptyStorage EXCEPT !.currencyOrder = <<"[", "EUR">>],
     [EmptyStorage EXCEPT !.theme = <<"blue">>,
                          !.analyticsConsent = <<"maybe">>]}
DragInputs == {<<"EUR", "USD">>, <<"CHF", "EUR">>}

\* The state of the game that does not depend on the storage is that of
\* InitGame; the records are those read.  A NaN record is kept in `loaded`
\* (the number in highScore is then not looked at: the game of such a page
\* is not followed).
InitStorage ==
    \E store \in StorageInputs, fails \in BOOLEAN :
        /\ InitGame(ReadHighScore(store).v, ReadHighLevel(store).v)
        /\ InitLocalOnly
        /\ InitStore(store, fails)

GameOpen == Alive /\ ~ loaded.highScore.nan /\ ~ loaded.highLevel.nan

NextStorage ==
    \/ Reload
    \/ ToggleTheme
    \/ \E drag \in DragInputs : HandleDragEnd(drag[1], drag[2])
    \/ \E value \in {"granted", "denied"} : UpdateAnalyticsConsent(value)
    \/ ResetAnalyticsConsent
    \/ FetchRates
    \/ \E ok \in BOOLEAN : FetchRatesResponse(ok)
    \/ QuotaExceeded
    \/ (GameOpen /\ ~ isVisible /\ ToggleGameMode)
    \/ (GameOpen /\ gameState = "menu" /\ StartGame(HofFoodCells))
    \/ (GameOpen /\ MoveSnake(HofFoodCells))

SpecStorage == InitStorage /\ [][NextStorage]_vars

\* ------------------------------------------------------------------ leaderboard specification
\* A stored snapshot of eleven entries (one more than the list holds) and a
\* remote table of eleven rows, both in the order of the list.
StoredScores == <<5, 5, 4, 4, 3, 3, 2, 2, 1, 1, 1>>
StoredSnapshot ==
    [i \in 1..Len(StoredScores) |-> Entry(<<"A">>, StoredScores[i], 1, 60 - i, 0)]
RemoteScores == <<9, 8, 7, 6, 5, 4, 3, 2, 2, 1, 1>>
RemoteRows ==
    {Entry(<<"C">>, RemoteScores[i], 1, 90 - i, i) : i \in 1..Len(RemoteScores)}

\* what the user types into the name field
NameInputs == {<<>>, <<"a">>, <<" ", "a">>}

InitH ==
    /\ InitGame(ReadHighScore(EmptyStorage).v, ReadHighLevel(EmptyStorage).v)
    /\ InitStore(EmptyStorage, FALSE)
    /\ \E configured \in BOOLEAN :
       \E stored \in {<<>>, StoredSnapshot} :
       \E table \in {{}, RemoteRows} :
           /\ ~ configured => table = {}
           /\ InitHof(configured, stored, table)

\* The remote side, the timers and the teardown are let to move once the game
\* is over: they and the game change disjoint variables, so every
\* interleaving with a running game equals one in which the game comes first.
\* One game is played to its end.
Quiet == gameState = "gameover"

NextH ==
    \/ (gameState = "menu" /\ StartGame(HofFoodCells))
    \/ MoveSnake(HofFoodCells)
    \/ (~ isVisible /\ ToggleGameMode)
    \/ \E value \in NameInputs : HandleNameChange(value)
    \/ HandleSaveScore
    \/ \E i \in inserts : \E ok \in BOOLEAN : ServeInsert(i, ok)
    \/ \E i \in inserts : InsertResponse(i)
    \/ (Quiet /\ ChangeNotification)
    \/ (Quiet /\ ForeignInsert)
    \/ \E f \in fetches : \E ok \in BOOLEAN : Quiet /\ ServeFetch(f, ok)
    \/ \E f \in fetches : Quiet /\ FetchResponse(f)
    \/ (Quiet /\ SlowTimer)
    \/ (Quiet /\ Unmount)

SpecHof == InitH /\ [][NextH]_vars

\* ------------------------------------------------------------------ save specification
\* The save handler and the functions it calls, on a game that is over: the
\* score, the list, the name and the state of the first fetch are inputs.
ScoreInputs == 0..6
Board(scores) ==
    [i \in 1..Len(scores) |-> Entry(<<"A">>, scores[i], 1, 60 - i, 0)]
LeaderboardInputs ==
    {Board(<<>>),
     Board(<<5, 5, 4, 4, 3, 3, 2, 2, 1>>),
     Board(<<5, 5, 4, 4, 3, 3, 2, 2, 1, 1>>),
     Board(<<3, 3, 3, 3, 3, 3, 3, 3, 3, 3>>),
     Board(<<6, 6, 5, 5, 5, 4, 4, 4, 3, 2>>)}
SaveNameInputs == {<<>>, <<" ">>, <<"A">>, <<"A", "A", "A", "A", "A", "A">>}

\* a game that ended with score sc at level 1; the grid plays no part
InitOver(sc) ==
    /\ gameState = "gameover"
    /\ score = sc
    /\ highScore = Max(sc, StoredRecords.highScore)
    /\ isNewRecord = FALSE
    /\ level = 1
    /\ highLevel = StoredRecords.highLevel
    /\ foodEatenThisLevel = sc
    /\ snake = InitialSnake
    /\ direction = "RIGHT"
    /\ inputQueue = <<>>
    /\ food = <<10, 7>>
    /\ enemies = <<>>
    /\ speed = INITIAL_SPEED
    /\ autoPaused = FALSE
    /\ hasStarted = TRUE
    /\ isVisible = TRUE
    /\ mounted = TRUE
    /\ lcTimers = <<>>
    /\ manualPause = FALSE
    /\ ticks = 0
    /\ keys = 0
    /\ saves = 0
    /\ foreign = 0
    /\ reverseDropped = FALSE

InitSave ==
    /\ \E sc \in ScoreInputs : InitOver(sc)
    /\ \E configured \in BOOLEAN, loading \in BOOLEAN :
           /\ loading => configured
           /\ hasSupabaseConfig = configured
           /\ hofLoading = loading
           /\ hofRequestId = IF configured THEN 1 ELSE 0
           /\ hofTimer = IF configured THEN "pending" ELSE "none"
           /\ fetches = IF loading
                        THEN {[rid |-> 1, st |-> "sent", rows |-> <<>>]} ELSE {}
    /\ hallOfFame \in LeaderboardInputs
    /\ storedHof = hallOfFame
    /\ hofStoredByApp = FALSE
    /\ playerName \in SaveNameInputs
    /\ hasSavedScore = FALSE
    /\ hofError = Null
    /\ inserts = {}
    /\ remoteTable = {}
    /\ notifs = 0
    /\ InitStore(ReturningStorage, FALSE)

NextSave ==
    \/ InvokeSaveScore
    \/ \E i \in inserts : \E ok \in BOOLEAN : ServeInsert(i, ok)
    \/ \E i \in inserts : InsertResponse(i)
    \/ Unmount

SpecSave == InitSave /\ [][NextSave]_vars

\* ------------------------------------------------------------------ restart specification
\* A game is over with a qualifying score, the remote list loaded and empty
\* and a name typed.  The score is submitted, and while the insert is in
\* flight a new game is started and played to its end.
InitRestart ==
    /\ InitSave
    /\ score = 2 /\ hasSupabaseConfig /\ ~ hofLoading
    /\ hallOfFame = <<>> /\ playerName = <<"A">>

NextRestart ==
    \/ HandleSaveScore
    \/ (inserts # {} /\ StartGame(HofFoodCells))
    \/ MoveSnake(HofFoodCells)
    \/ \E i \in inserts : \E ok \in BOOLEAN : ServeInsert(i, ok)
    \/ \E i \in inserts : InsertResponse(i)

SpecRestart == InitRestart /\ [][NextRestart]_vars


\* ------------------------------------------------------------------ properties
Abs(n) == IF n < 0 THEN -n ELSE n

\* two cells that differ by exactly 1 in exactly one coordinate
Adjacent(a, b) == Abs(a[1] - b[1]) + Abs(a[2] - b[2]) = 1

\* C1: in every reachable state every two consecutive cells of the snake are
\* grid-adjacent.
SnakeContiguous ==
    \A i \in 1..(Len(snake) - 1) : Adjacent(snake[i], snake[i + 1])

\* C1 happens: a snake that has grown and has turned a corner.
SnakeGrownAndTurned ==
    /\ gameState = "playing"
    /\ Len(snake) > Len(InitialSnake)
    /\ \E i \in 1..Len(snake) : snake[i][2] # snake[1][2]

\* a step that is a simulation tick
IsTick == gameState = "playing" /\ ticks' = ticks + 1

\* C2: the heading a tick moves the head with is never the opposite of the
\* heading before the tick, and the cell the head moves to is never the
\* snake's second cell.
NoReversal ==
    [][IsTick =>
          /\ direction' # Opposite(direction)
          /\ Len(snake) >= 2 => StepHead(snake[1], direction') # snake[2]]_vars

\* C2 happens: a tick has dequeued a direction that reverses the heading, and
\* the game went on.
ReversalDiscarded ==
    /\ reverseDropped
    /\ gameState = "playing"
    /\ inputQueue = <<>>

\* C3: the food cell is different from every snake cell and from every enemy
\* cell.
FoodOnFreeCell ==
    /\ \A i \in 1..Len(snake) : food # snake[i]
    /\ \A i \in 1..Len(enemies) : food # enemies[i]

\* C3 happens: with enemies on the grid, every sample of spawnFood was
\* blocked and the full-grid scan placed the food.
FoodPlacedByScan ==
    /\ gameState = "playing"
    /\ Len(enemies) > 0
    /\ food \notin FoodSampleCells
    /\ food = <<0, 0>>

\* the phase changes C4 lists
PhaseChanges ==
    {<<"menu", "playing">>, <<"gameover", "playing">>, <<"playing", "paused">>,
     <<"paused", "playing">>, <<"playing", "gameover">>,
     <<"playing", "levelclear">>, <<"levelclear", "playing">>}

\* C4: every change of the game phase is one of menu->playing,
\* gameover->playing, playing->paused, paused->playing, playing->gameover,
\* playing->levelclear, levelclear->playing.
OnlyListedPhaseChanges ==
    [][gameState' # gameState => <<gameState, gameState'>> \in PhaseChanges]_vars

\* C5: a game paused by the user goes back to playing only by resumeGame or
\* startGame; these leave the visibility alone, so a step from a pause of the
\* user to playing never comes with a change of isVisible.
ManualPauseStays ==
    [][(gameState = "paused" /\ manualPause /\ gameState' = "playing")
          => isVisible' = isVisible]_vars

\* C6: within one game-over phase at most one submission is accepted and at
\* most one remote insert is issued.
AtMostOneSubmission ==
    /\ saves <= 1
    /\ Cardinality(inserts) <= 1

\* C7: a response that arrives for a request older than the current one, and
\* the slow-loading timer of a request that is no longer the current one,
\* change neither the list, nor the stored snapshot, nor the loading flag,
\* nor the error notice.
StaleResponseIgnored ==
    [][/\ \A f \in fetches :
              (f.rid # hofRequestId /\ fetches' = fetches \ {f})
                  => UNCHANGED hofState
       /\ (hofTimer = "pending" /\ hofTimer' = "fired" /\ hofRequestId # 1)
              => UNCHANGED hofState]_vars

\* C7 happens: the response to request 1 arrived after request 2 was issued,
\* and the list is still loading.
StaleResponseArrived ==
    /\ mounted
    /\ hofRequestId = 2
    /\ \A f \in fetches : f.rid = 2 /\ f.st = "sent"
    /\ fetches # {}
    /\ hofLoading
    /\ hofError = Null

\* C8: with a remote configured, an empty list and no response delivered to
\* any fetch, the slow-loading timer clears the loading flag and shows the
\* slow notice when it fires.
SlowNoticeShown ==
    [][(/\ hofTimer = "pending" /\ hofTimer' = "fired"
        /\ mounted
        /\ hasSupabaseConfig
        /\ Len(hallOfFame) = 0
        /\ Cardinality(fetches) = hofRequestId)
          => (hofLoading' = FALSE /\ hofError' = SlowNotice)]_vars

\* C9: after the teardown no step changes the state of the component or the
\* stored leaderboard.
QuietAfterTeardown ==
    [][~ mounted => UNCHANGED <<gameVars, hofVars>>]_vars

\* C10: the list in component state and the snapshot the component wrote to
\* local storage have at most ten entries.
HallOfFameBounded ==
    /\ Len(hallOfFame) <= HOF_SIZE
    /\ hofStoredByApp => Len(storedHof) <= HOF_SIZE

\* C10 happens: an entry of this game was merged into a full list, and the
\* list was written to local storage.
MergedIntoFullList ==
    /\ Len(hallOfFame) = HOF_SIZE
    /\ \E i \in 1..Len(hallOfFame) :
           hallOfFame[i].ts = Now(0) /\ hallOfFame[i].id = 0
    /\ hofStoredByApp
    /\ storedHof = hallOfFame

\* the order of the list: score descending, then timestamp descending
InOrder(a, b) == a.score > b.score \/ (a.score = b.score /\ a.ts >= b.ts)

QualifiesAsSpecified ==
    \A c \in -1..7 :
        QualifiesForHof(c, hallOfFame) <=>
            /\ c > 0
            /\ \/ Len(hallOfFame) < 10
               \/ \E i \in 1..Len(hallOfFame) : c > hallOfFame[i].score

\* C12 happens: a positive score equal to the smallest score of a full list
\* was refused, and no entry was saved.
TieRefused ==
    /\ gameState = "gameover"
    /\ Len(hallOfFame) = 10
    /\ score > 0
    /\ \A i \in 1..Len(hallOfFame) : hallOfFame[i].score >= score
    /\ \E i \in 1..Len(hallOfFame) : hallOfFame[i].score = score
    /\ Len(Trim(playerName)) > 0
    /\ ~ QualifiesForHof(score, hallOfFame)
    /\ ~ ENABLED InvokeSaveScore

\* C13: with score 0 no step issues an insert or merges an entry.
ZeroScoreNeverSaved ==
    [][score <= 0 => UNCHANGED <<saves, inserts, hallOfFame, storedHof>>]_vars

\* C13 happens: score 0, a name, a list with room and nothing else in the
\* way of a save, and handleSaveScore returns at once.
ZeroScoreRefused ==
    /\ score = 0
    /\ gameState = "gameover"
    /\ mounted
    /\ ~ hasSavedScore
    /\ ~ hofLoading
    /\ Len(hallOfFame) < 10
    /\ Len(Trim(playerName)) > 0
    /\ ~ ENABLED InvokeSaveScore

\* a step that is startGame: initGame(false) and the first food
IsStart ==
    /\ gameState \in {"menu", "paused", "gameover"}
    /\ ticks' = 0 /\ keys' = 0
    /\ level' = 1 /\ foodEatenThisLevel' = 0
    /\ snake' = InitialSnake

\* C14: every change of the score is an increase, except that startGame
\* sets it to 0.
ScoreOnlyGrows ==
    [][score' # score => (score' > score \/ (IsStart /\ score' = 0))]_vars

\* C14 happens: in the second level of a game, after the food points and the
\* level-clear bonus, the score went up again.
ScoreGrewInSecondLevel ==
    /\ gameState = "playing"
    /\ level = 2
    /\ foodEatenThisLevel > 0
    /\ score > FOOD_PER_LEVEL * FOOD_SCORE + LEVEL_CLEAR_SCORE

\* a tick of a game in which no direction key was pressed, on level 1
IsStraightTick ==
    /\ IsTick
    /\ level = 1
    /\ keys = 0

\* C17: in a game started from the start configuration in which no direction
\* is entered, every tick on level 1 moves the head one cell to the right
\* along row 7; the tick that computes a head with x = 15 is refused by the
\* wall rule and changes the phase from playing to gameover, and every
\* earlier tick leaves the phase at playing.
StraightRunEndsAtWall ==
    [][IsStraightTick =>
          LET head == StepHead(snake[1], "RIGHT")
          IN  /\ direction' = "RIGHT"
              /\ head[2] = 7
              /\ IF head[1] = GRID_SIZE
                 THEN /\ TickOutcome(snake, enemies, head) = "wall"
                      /\ gameState' = "gameover"
                      /\ ticks' = 8
                 ELSE /\ head[1] < GRID_SIZE
                      /\ gameState' = "playing"
                      /\ snake'[1] = head]_vars

\* C17 happens: the eighth tick of a game without direction input found the
\* head at (14, 7) and ended the game.
StraightRunHitWall ==
    /\ gameState = "gameover"
    /\ level = 1
    /\ keys = 0
    /\ ticks = 8
    /\ snake[1] = <<14, 7>>
    /\ Len(snake) >= 3

HighScoreOnlyRaised ==
    [][LET before == ReadHighScore(storage)
           after == ReadHighScore(storage')
       IN  /\ ~ after.nan
           /\ highScore' # highScore =>
                  (score' > highScore /\ highScore' = score')
           /\ storage'.highScore # storage.highScore =>
                  /\ after.v > before.v
                  /\ after.v = IF mounted THEN score'
                               ELSE score + LEVEL_CLEAR_SCORE
                  /\ storage'.highScore = NumberToString(after.v)
           /\ highScore' >= highScore
           /\ after.v >= before.v
           /\ mounted' => after.v = highScore'
           /\ score' > score =>
                  (highScore' >= score' /\ after.v >= score')]_vars

\* C15 happens: the high score 10 read from the storage was passed by the
\* level-clear bonus, and the state and the key hold the new record.
RecordRaisedByBonus ==
    /\ loaded.highScore = Num(10)
    /\ gameState = "levelclear"
    /\ score = 13
    /\ highScore = 13
    /\ isNewRecord
    /\ storage.highScore = <<"1", "3">>

\* the text holds the part, word for word
Contains(text, part) ==
    \E k \in 0..(Len(text) - Len(part)) :
        SubSeq(text, k + 1, k + Len(part)) = part

\* C18: when handleSaveScore resumes after an insert that failed, on a
\* mounted component, the entry is merged into the list (it is in the list,
\* or the list is full of entries that rank before it), the snapshot is the
\* list, the score is marked as saved, and the notice holds every field the
\* error carries (the message of the refused column, its code, the message
\* of a network failure), or the words for an unknown error when it carries
\* none.
FailedSaveFallsBack ==
    [][\A i \in inserts :
          (i.st = "err" /\ i \notin inserts' /\ mounted) =>
              /\ \/ \E k \in 1..Len(hallOfFame') : hallOfFame'[k] = i.entry
                 \/ /\ Len(hallOfFame') = HOF_SIZE
                    /\ \A k \in 1..HOF_SIZE :
                           InOrder(hallOfFame'[k], i.entry)
              /\ \A k \in 1..Len(hallOfFame) :
                     \/ \E j \in 1..Len(hallOfFame') :
                            hallOfFame'[j] = hallOfFame[k]
                     \/ /\ Len(hallOfFame') = HOF_SIZE
                        /\ \A j \in 1..HOF_SIZE :
                               InOrder(hallOfFame'[j], hallOfFame[k])
              /\ storedHof' = hallOfFame'
              /\ hasSavedScore'
              /\ hofError' # Null
              /\ \A field \in {i.err.message, i.err.details, i.err.hint,
                                i.err.code} :
                     field # <<>> => Contains(hofError', field)
              /\ i.err = NoReason => Contains(hofError', UnknownError)]_vars

\* C18 happens: a name of six characters was refused by the column of five,
\* and the entry is in the list and the snapshot with the notice of the
\* refusal.
RefusedNameKeptLocally ==
    /\ mounted
    /\ hasSavedScore
    /\ inserts = {}
    /\ hofError = SaveErrorNotice(ValueTooLong)
    /\ \E k \in 1..Len(hallOfFame) :
           /\ Len(hallOfFame[k].name) = 6
           /\ hallOfFame[k].ts = Now(0)
           /\ hallOfFame[k].score = score
    /\ storedHof = hallOfFame

\* C19: no initializer that reads a persisted key throws, and the records
\* in the state of the game are numbers, whatever the storage holds.
ReadsFallBack ==
    /\ crashed # "initializer"
    /\ ~ loaded.highScore.nan
    /\ ~ loaded.highLevel.nan

\* C20: a write that the storage refuses is not noticed: no exception leaves
\* an effect or a handler, and the notice of fetchRates is shown only after a
\* request that failed.
WritesFailSilently ==
    /\ crashed \notin {"effect", "handler"}
    /\ app.error # Null => app.failed

\* a step that delivers a response to fetchRates
IsRatesResponse == app'.responses = app.responses + 1

\* C21: a response that failed leaves the rates as they were and sets the
\* notice only when no rates are cached; after a response that succeeded the
\* rates are those of that response and no notice is shown.
RatesFollowResponses ==
    [][IsRatesResponse =>
          IF app'.fetch = "done"
          THEN /\ app'.rates = FreshRates(app'.responses)
               /\ app'.error = Null
          ELSE /\ app'.rates = app.rates
               /\ app'.error # app.error =>
                      (storage.cachedRates = Null /\ app'.error = RatesNotice)]_vars

\* C22: no simulation tick runs once the food count of the level has reached
\* FOOD_PER_LEVEL (the phase levelclear comes first), and the count never
\* passes FOOD_PER_LEVEL.
NoTickAfterThreshold ==
    [][IsTick => (/\ foodEatenThisLevel < FOOD_PER_LEVEL
                  /\ foodEatenThisLevel' <= FOOD_PER_LEVEL)]_vars

\* C23: LEVEL_CLEAR_SCORE is added only together with the transition from
\* playing to levelclear of the game whose counter reached FOOD_PER_LEVEL:
\* not to a game that was paused, restarted or ended after the threshold
\* food, and not a second time for the same level.
IsLevelBonus ==
    /\ lcTimers # <<>> /\ lcTimers' = Tail(lcTimers)
    /\ score' = score + LEVEL_CLEAR_SCORE
BonusOnlyWithLevelClear ==
    [][IsLevelBonus => (/\ gameState = "playing"
                        /\ gameState' = "levelclear"
                        /\ foodEatenThisLevel = FOOD_PER_LEVEL
                        /\ lcTimers' = <<>>)]_vars

\* C24: a tick ends the game exactly when the new head is outside the grid,
\* or on a snake cell other than the current tail, or on an enemy cell;
\* the first of these, in that order, decides.  The cell of the tail is not
\* a collision.
NewHead == StepHead(snake[1], NextHeading(direction, inputQueue))
HeadOnBody == \E i \in 1..(Len(snake) - 1) : snake[i] = NewHead
TickEndsGameOnCollision ==
    [][IsTick =>
          /\ gameState' = "gameover" <=>
                 (\/ NewHead \notin GridCells
                  \/ HeadOnBody
                  \/ NewHead \in Cells(enemies))
          /\ TickOutcome(snake, enemies, NewHead) =
                 IF NewHead \notin GridCells THEN "wall"
                 ELSE IF HeadOnBody THEN "self"
                 ELSE IF NewHead \in Cells(enemies) THEN "enemy"
                 ELSE "none"
          /\ (NewHead = snake[Len(snake)] /\ ~ HeadOnBody /\ NewHead \notin Cells(enemies))
                 => gameState' = "playing"]_vars

\* a tick has moved the head into the cell the tail left
HeadTookTailCell ==
    /\ ticks > 0 /\ gameState = "playing"
    /\ \E i \in 1..Len(snake) : snake[i] = <<8, 8>>
    /\ snake[1] = <<8, 7>> /\ Len(snake) = 4

\* C25: the cells of the snake are pairwise distinct in every reachable
\* state, after a tick into the cell the tail left and after a food tick,
\* which keeps the tail.
SnakeCellsDistinct ==
    \A i \in 1..Len(snake) : \A j \in 1..Len(snake) :
        i # j => snake[i] # snake[j]

\* the coiled snake of four cells has eaten the food beside its tail
GrewBesideTail ==
    /\ ticks > 0 /\ Len(snake) = 5
    /\ snake[1] = <<7, 8>> /\ snake[5] = <<8, 7>>

\* C26: a tick with a terminal outcome (wall, self or enemy collision)
\* leaves the snake, the food, the enemies, the score, the eaten-this-level
\* counter and the tick interval as they were: the fatal head is not added
\* to the snake, and only the phase, the heading and the input queue change.
IsTerminalTick ==
    /\ IsTick
    /\ (NewHead \notin GridCells \/ HeadOnBody \/ NewHead \in Cells(enemies))
TerminalTickChangesPhaseOnly ==
    [][IsTerminalTick =>
          /\ gameState' = "gameover"
          /\ UNCHANGED <<snake, food, enemies, score, foodEatenThisLevel, speed,
                         level, highScore, highLevel, isNewRecord, lcTimers,
                         storage>>]_vars

\* the coiled snake of five cells has turned into its own body
DiedCoiled ==
    /\ gameState = "gameover" /\ direction = "UP"
    /\ snake = <<<<8, 8>>, <<9, 8>>, <<9, 7>>, <<8, 7>>, <<7, 7>>>>

\* C27: on a tick that does not end the game the snake grows by exactly one
\* cell if the new head is the food cell, and then the score grows by
\* FOOD_SCORE and the eaten-this-level counter by one; otherwise all three
\* stay.  The length never decreases during a level (only a level start
\* resets the snake) and is at least 3 while the game is playing.
LengthFollowsFood ==
    [][/\ (IsTick /\ ~ IsTerminalTick) =>
              IF NewHead = food
              THEN /\ Len(snake') = Len(snake) + 1
                   /\ score' = score + FOOD_SCORE
                   /\ foodEatenThisLevel' = foodEatenThisLevel + 1
              ELSE /\ Len(snake') = Len(snake)
                   /\ score' = score
                   /\ foodEatenThisLevel' = foodEatenThisLevel
       /\ Len(snake') < Len(snake) =>
              (snake' = InitialSnake /\ foodEatenThisLevel' = 0 /\ ~ IsTick)
       /\ gameState = "playing" => Len(snake) >= 3
       /\ gameState' = "playing" => Len(snake') >= 3]_vars

\* on level 2 the snake has eaten one food and moved on without food
AteThenMoved ==
    /\ level = 2 /\ gameState = "playing" /\ Len(snake) = 4
    /\ foodEatenThisLevel = 1 /\ ticks >= 2 /\ snake[1] # food
    /\ score = FOOD_PER_LEVEL * FOOD_SCORE + LEVEL_CLEAR_SCORE + FOOD_SCORE

\* C28: the tick interval is always between MIN_SPEED and INITIAL_SPEED;
\* each eaten food lowers it by SPEED_DECREASE, but not below MIN_SPEED, no
\* other tick changes it, and each level start sets it to
\* max(INITIAL_SPEED - 10 * (level - 1), MIN_SPEED), on every level.
FloorAtMinSpeed(ms) == IF ms > MIN_SPEED THEN ms ELSE MIN_SPEED
StartInterval(lvl) == FloorAtMinSpeed(INITIAL_SPEED - 10 * (lvl - 1))
IsLevelStart ==
    /\ ~ IsTick
    /\ <<snake, level, enemies, speed>>' # <<snake, level, enemies, speed>>
TickIntervalBounded ==
    [][/\ speed \in MIN_SPEED..INITIAL_SPEED
       /\ speed' \in MIN_SPEED..INITIAL_SPEED
       /\ (gameState = "playing" /\ foodEatenThisLevel = 0) => speed = StartInterval(level)
       /\ IsTick => speed' = IF ~ IsTerminalTick /\ NewHead = food
                            THEN FloorAtMinSpeed(speed - SPEED_DECREASE)
                            ELSE speed
       /\ IsLevelStart => speed' = StartInterval(level')]_vars

\* level 7 starts at 90 ms; the seventh food found the interval at the floor
AteAtMinSpeed ==
    /\ level = 7 /\ foodEatenThisLevel = 7 /\ speed = MIN_SPEED

\* C29: after every level start (startGame for level 1, nextLevel for the
\* next level) the number of enemy cells is max(0, level - 1), and the
\* enemies stay as they are until the next level start.
StartsLevel ==
    /\ gameState' = "playing" /\ snake' = InitialSnake
    /\ foodEatenThisLevel' = 0 /\ ~ IsTick
    /\ level' = 1 \/ level' = level + 1
NearHead(c, head) ==
    /\ c[1] \in (head[1] - 1)..(head[1] + 1)
    /\ c[2] \in (head[2] - 1)..(head[2] + 1)
EnemiesClearOfSnake ==
    [][StartsLevel =>
          /\ \A i \in 1..Len(enemies') :
                 /\ enemies'[i] \in GridCells
                 /\ \A k \in 1..Len(snake') : enemies'[i] # snake'[k]
                 /\ ~ NearHead(enemies'[i], snake'[1])
                 /\ \A j \in 1..Len(enemies') : i # j => enemies'[i] # enemies'[j]
                 /\ enemies'[i] # food'
          /\ food' \in GridCells]_vars

\* level 2 has begun with its enemy two cells ahead of the head and the food
\* behind the enemy
EnemyAheadOfSnake ==
    /\ level = 2 /\ gameState = "playing" /\ foodEatenThisLevel = 0
    /\ snake = InitialSnake /\ enemies = <<<<9, 7>>>> /\ food = <<10, 7>>

\* C31: the queue of pending directions never holds more than 2: a key or
\* swipe that finds it full is dropped, nothing is queued while the phase is
\* not playing, a tick removes at most one direction (the first), and
\* startGame and nextLevel empty the queue.
IsDirectionInput == keys' = keys + 1
QueueHoldsAtMostTwo ==
    [][/\ Len(inputQueue) <= 2 /\ Len(inputQueue') <= 2
       /\ IsDirectionInput =>
              /\ gameState = "playing"
              /\ IF Len(inputQueue) = 2 THEN inputQueue' = inputQueue
                 ELSE /\ Len(inputQueue') = Len(inputQueue) + 1
                      /\ SubSeq(inputQueue', 1, Len(inputQueue)) = inputQueue
       /\ Len(inputQueue') > Len(inputQueue) => IsDirectionInput
       /\ IsTick => inputQueue' = (IF inputQueue = <<>> THEN <<>>
                                   ELSE Tail(inputQueue))
       /\ (gameState \in {"menu", "gameover", "levelclear"} /\ gameState' = "playing")
              => inputQueue' = <<>>
       /\ gameState # "playing" =>
              (inputQueue' = inputQueue \/ inputQueue' = <<>>)]_vars

\* a direction arrived when two were pending, and was dropped
InputDroppedOnFullQueue ==
    /\ keys = 1 /\ ticks = 0 /\ gameState = "playing"
    /\ Len(inputQueue) = 2

\* C32: while the game surface is invisible nothing of the game runs: no
\* tick, and no timer scheduled earlier and no subscription callback changes
\* the phase, the score or the leaderboard before the surface is visible
\* again.
InvisibleSurfaceIsQuiet ==
    [][(~ isVisible /\ ~ isVisible') =>
          /\ ~ IsTick
          /\ UNCHANGED <<gameState, score, hallOfFame>>]_vars

\* C33: an accepted submission is merged into the local leaderboard at once,
\* before the remote insert has an outcome: while an insert is in flight the
\* list holds its entry (or is full of entries that rank before it) and the
\* snapshot is the list.
EntryMergedBeforeResponse ==
    \A i \in inserts :
        (i.st = "sent" /\ mounted) =>
            /\ \/ \E k \in 1..Len(hallOfFame) : hallOfFame[k] = i.entry
               \/ /\ Len(hallOfFame) = HOF_SIZE
                  /\ \A k \in 1..HOF_SIZE : InOrder(hallOfFame[k], i.entry)
            /\ storedHof = hallOfFame

\* C34: the slow notice is set only when no response to the fetch has
\* arrived by the time the loading timer fires: after a response was applied
\* (hofLoading is false again), also a successful one with no rows, the
\* callback of the timer leaves the notice alone.
IsSlowTimer == hofTimer = "pending" /\ hofTimer' = "fired"
SlowNoticeOnlyWithoutResponse ==
    [][(IsSlowTimer /\ ~ hofLoading) => hofError' = hofError]_vars

\* C35: whenever a game with a positive score enters the gameover phase
\* the saved flag is false, so the score of every completed game can be
\* submitted once; also when a save of the previous game was in flight
\* while the new game was started.
SavedFlagClearAtGameOver ==
    [][(gameState # "gameover" /\ gameState' = "gameover" /\ score' > 0)
          => ~ hasSavedScore']_vars

\* C36: an entry that was merged into the list after its remote insert had
\* failed (an entry of this session without a row in the remote table)
\* stays in the list as long as fewer than 10 entries rank before it; no
\* later fetch response removes it.
IsFailedEntry(e) ==
    /\ e.id = 0 /\ e.ts \in {Now(n) : n \in 0..MaxOps}
    /\ ~ \E r \in remoteTable :
             r.name = e.name /\ r.score = e.score /\ r.level = e.level
FailedEntryStays ==
    [][\A k \in 1..Len(hallOfFame) :
          (hasSupabaseConfig /\ IsFailedEntry(hallOfFame[k])) =>
              \/ \E j \in 1..Len(hallOfFame') : hallOfFame'[j] = hallOfFame[k]
              \/ /\ Len(hallOfFame') = HOF_SIZE
                 /\ \A j \in 1..HOF_SIZE :
                        InOrder(hallOfFame'[j], hallOfFame[k])]_vars

\* C37: a successful submission is shown at most once: the list never holds
\* both the entry that handleSaveScore merged for a submission (no id, the
\* time of the client) and the row the remote store made of the same
\* submission, whatever the order of the insert response, the change
\* notification and the fetch responses.
SubmissionShownOnce ==
    \A n \in 1..(MaxOps + 1) :
        ~ \E k, j \in 1..Len(hallOfFame) :
              /\ hallOfFame[k].id = 0 /\ hallOfFame[k].ts = Now(n - 1)
              /\ hallOfFame[j].id = 20 + n

\* C38: while animation frames keep firing on a visible surface, a game in
\* the playing phase with no direction input leaves that phase (gameover or
\* levelclear) unless a direction, pause or restart input arrives first; and
\* with or without input the simulation keeps advancing as long as the game
\* is playing.  The first part is stated for the games that have the ticks of
\* a full level left within MaxTicks.
PlayingEndsWithoutInput ==
    /\ (gameState = "playing" /\ keys = 0 /\ ticks + FOOD_PER_LEVEL <= MaxTicks)
           ~> (gameState # "playing" \/ keys > 0)
    /\ (gameState = "playing")
           ~> (gameState # "playing" \/ ticks >= MaxTicks)

\* on level 2 the straight run has ended at the wall, with no key pressed
RunEndedWithoutInput ==
    /\ gameState = "gameover" /\ keys = 0 /\ level = 2
    /\ ticks = FOOD_PER_LEVEL /\ snake[1] = <<GRID_SIZE - 1, 7>>

====
